---- MODULE Spec2Model ----
(***************************************************************************)
(* A model of the lsp_msg attribute macros (lsp_msg_derive/src/lib.rs) and *)
(* of the serialization contract of the records they generate.             *)
(*                                                                         *)
(* Text is modelled as a sequence of chunks: a chunk is either one         *)
(* punctuation character (a quote, an underscore, ...) or a maximal run of *)
(* letters, so that two texts are equal exactly when their chunk sequences *)
(* are equal.                                                              *)
(***************************************************************************)
EXTENDS Naturals, Sequences, FiniteSets, TLC

VARIABLES
    attr,                   \* the tokens `for token in attr` has consumed; the stream
                            \* is moved into the loop and gone (<<>>) once it ends
    state,                  \* AttributeParserState
    allow_missing_attr,     \* quote!{} or quote!{ #[serde(default)] }
    has_document_selector,
    has_static_registration,
    dynamic_registration,   \* Option<Literal>: <<>> is None, <<l>> is Some(l)
    link_support,
    markup_kind_list,
    triggers,
    resolve_provider,
    pc,                     \* position in lsp_object
    panic,                  \* <<>> or the message of the panic that aborted the macro
    item,                   \* <<>> until the annotated item is parsed, then <<item>>
    fields,                 \* the Vec<TokenStream2> of output fields
    output,                 \* <<>> or <<the emitted declaration>>
    kind_attrs,             \* the attributes lsp_kind puts before the enum
    rt,                     \* position of the program that uses the generated record
    value,                  \* a value of the generated record, one entry per field
    wire,                   \* the entries the record's Serialize has emitted
    decoded,                \* the result of the record's Deserialize
    previous,               \* TRUE once an earlier invocation of the compilation has ended
    position,               \* a Position: its line and its character, each a u64
    calls,                  \* the methods of Position called so far
    overflow_checks,        \* the build checks integer overflow (debug) or not (release)
    position_panic          \* <<>> or the message of the panic that ended the calls

macroVars == <<attr, state, allow_missing_attr, has_document_selector,
               has_static_registration, dynamic_registration, link_support,
               markup_kind_list, triggers, resolve_provider, pc, panic, item,
               fields, output>>

kindVars == <<kind_attrs>>

runtimeVars == <<rt, value, wire, decoded>>

sessionVars == <<previous>>

positionVars == <<position, calls, overflow_checks, position_panic>>

vars == <<macroVars, kindVars, runtimeVars, sessionVars, positionVars>>

----------------------------------------------------------------------------
(* Bounds *)

MaxTokens == 4

\* The calls made on one Position.
MaxCalls == 3

----------------------------------------------------------------------------
(* Tokens *)

Quote == "\""

\* The grave accent, which a TLA+ string cannot hold.
Backtick == "GRAVE"

Newline == "\n"

allow_missing_name == <<"allow", "_", "missing">>
document_selector_name == <<"document", "_", "selector">>
static_registration_name == <<"static", "_", "registration">>
dynamic_registration_name == <<"dynamic", "_", "registration">>
link_support_name == <<"link", "_", "support">>
markup_kind_list_name == <<"markup", "_", "kind", "_", "list">>
triggers_name == <<"triggers">>
resolve_provider_name == <<"resolve", "_", "provider">>

FlagNames == {allow_missing_name, document_selector_name, static_registration_name}

ValueOptionNames ==
    {dynamic_registration_name, link_support_name, markup_kind_list_name,
     triggers_name, resolve_provider_name}

\* Identifiers that are no option of lsp_object: one used in src/src/general.rs,
\* one differing in case only, one a proper prefix of an option name.
OtherNames == {<<"value", "_", "set">>, <<"Triggers">>, <<"trigger">>}

Ident(text) == [kind |-> "Ident", text |-> text]

Literal(text) == [kind |-> "Literal", text |-> text]

Punct(ch) == [kind |-> "Punct", text |-> <<ch>>]

Group(text) == [kind |-> "Group", text |-> text]

\* Literal::to_string() is the literal as written, its quotes included.
Literals ==
    {Literal(<<Quote, "completion", Quote>>), Literal(<<Quote, "hover", Quote>>),
     Literal(<<Quote, "workspace/symbol request", Quote>>),
     Literal(<<Quote, "\\", Quote, "x", "\\", Quote, Quote>>)}

Tokens ==
    {Ident(t) : t \in FlagNames \cup ValueOptionNames \cup OtherNames}
    \cup Literals
    \cup {Punct("="), Punct(",")}
    \cup {Group(<<"(", "SymbolKind", ")">>)}

----------------------------------------------------------------------------
(* The parser of lsp_object *)

None == <<>>

Some(x) == <<x>>

AwaitingStates ==
    {"DynamicRegistrationValue", "LinkSupportValue", "MarkupKindListValue",
     "TriggersValue", "ResolveProviderValue"}

ParserStates == {"Option"} \cup AwaitingStates

\* is_searching_for_value with the arms of its match exchanged.
is_searching_for_value_exchanged(s) == s = "Option"

is_searching_for_value(s) == s # "Option"

\* An attribute #[name(...)] or #[name = ...] of a declaration or field.
Attribute(name, text) == [name |-> name, text |-> text]

Doc(text) == Attribute("doc", text)

SerdeDefault == Attribute("serde", <<"default">>)

\* The locals of lsp_object as one record.
Locals ==
    [state |-> state,
     allow_missing_attr |-> allow_missing_attr,
     has_document_selector |-> has_document_selector,
     has_static_registration |-> has_static_registration,
     dynamic_registration |-> dynamic_registration,
     link_support |-> link_support,
     markup_kind_list |-> markup_kind_list,
     triggers |-> triggers,
     resolve_provider |-> resolve_provider,
     panic |-> panic]

InitLocals ==
    [state |-> "Option",
     allow_missing_attr |-> <<>>,
     has_document_selector |-> FALSE,
     has_static_registration |-> FALSE,
     dynamic_registration |-> None,
     link_support |-> None,
     markup_kind_list |-> None,
     triggers |-> None,
     resolve_provider |-> None,
     panic |-> <<>>]

\* The unsupported-option message without its argument.
UnsupportedMessageWithoutOption(option) == <<"Unsupported attribute option">>

UnsupportedMessage(option) == <<"Unsupported attribute option: ">> \o option

MissingValueMessage == <<"Missing a value for an option.">>

\* str::to_ascii_lowercase on the identifiers of the model.
ToAsciiLowercase(text) ==
    [i \in 1..Len(text) |-> IF text[i] = "Triggers" THEN "triggers" ELSE text[i]]

\* IdentArm matching without regard to case.
IdentArmIgnoringCase(text) ==
    IF ToAsciiLowercase(text) \in FlagNames \cup ValueOptionNames
    THEN ToAsciiLowercase(text) ELSE <<"option">>

\* The arm of `match ident.to_string().as_str()` that the text selects: the
\* text itself for a string pattern, "option" for the binding pattern.
IdentArm(text) ==
    IF text \in FlagNames \cup ValueOptionNames THEN text ELSE <<"option">>

\* FlagArm with the document_selector arm setting the flag of its neighbour.
FlagArmWrongFlag(p, arm) ==
    CASE arm = allow_missing_name ->
           [p EXCEPT !.allow_missing_attr = <<SerdeDefault>>]
      [] arm = document_selector_name ->
           [p EXCEPT !.has_static_registration = TRUE]
      [] arm = static_registration_name ->
           [p EXCEPT !.has_static_registration = TRUE]

\* The arms of the three flags.
FlagArm(p, arm) ==
    CASE arm = allow_missing_name ->
           [p EXCEPT !.allow_missing_attr = <<SerdeDefault>>]
      [] arm = document_selector_name ->
           [p EXCEPT !.has_document_selector = TRUE]
      [] arm = static_registration_name ->
           [p EXCEPT !.has_static_registration = TRUE]

\* The arms of the five options that take a value.
ValueOptionArm(p, arm) ==
    CASE arm = dynamic_registration_name ->
           [p EXCEPT !.state = "DynamicRegistrationValue"]
      [] arm = link_support_name ->
           [p EXCEPT !.state = "LinkSupportValue"]
      [] arm = markup_kind_list_name ->
           [p EXCEPT !.state = "MarkupKindListValue"]
      [] arm = triggers_name ->
           [p EXCEPT !.state = "TriggersValue"]
      [] arm = resolve_provider_name ->
           [p EXCEPT !.state = "ResolveProviderValue"]

\* One token consumed in AttributeParserState::Option.
OptionStep(p, token) ==
    IF token.kind = "Ident"
    THEN LET arm == IdentArm(token.text) IN
         IF arm \in FlagNames THEN FlagArm(p, arm)
         ELSE IF arm \in ValueOptionNames THEN ValueOptionArm(p, arm)
         ELSE [p EXCEPT !.panic = UnsupportedMessage(token.text)]
    ELSE p

\* LiteralArm with the LinkSupportValue arm a copy of its predecessor.
LiteralArmCopied(p, literal) ==
    CASE p.state \in {"DynamicRegistrationValue", "LinkSupportValue"} ->
           [p EXCEPT !.dynamic_registration = Some(literal), !.state = "Option"]
      [] p.state = "MarkupKindListValue" ->
           [p EXCEPT !.markup_kind_list = Some(literal), !.state = "Option"]
      [] p.state = "TriggersValue" ->
           [p EXCEPT !.triggers = Some(literal), !.state = "Option"]
      [] p.state = "ResolveProviderValue" ->
           [p EXCEPT !.resolve_provider = Some(literal), !.state = "Option"]

\* LiteralArm keeping the first value of an option (first-write-wins).
LiteralArmKeepingFirst(p, literal) ==
    CASE p.state = "DynamicRegistrationValue" ->
           [p EXCEPT !.dynamic_registration = IF @ = None THEN Some(literal) ELSE @,
                     !.state = "Option"]
      [] p.state = "LinkSupportValue" ->
           [p EXCEPT !.link_support = IF @ = None THEN Some(literal) ELSE @,
                     !.state = "Option"]
      [] p.state = "MarkupKindListValue" ->
           [p EXCEPT !.markup_kind_list = IF @ = None THEN Some(literal) ELSE @,
                     !.state = "Option"]
      [] p.state = "TriggersValue" ->
           [p EXCEPT !.triggers = IF @ = None THEN Some(literal) ELSE @,
                     !.state = "Option"]
      [] p.state = "ResolveProviderValue" ->
           [p EXCEPT !.resolve_provider = IF @ = None THEN Some(literal) ELSE @,
                     !.state = "Option"]

\* The TokenTree::Literal arm of each ...Value state.
LiteralArm(p, literal) ==
    CASE p.state = "DynamicRegistrationValue" ->
           [p EXCEPT !.dynamic_registration = Some(literal), !.state = "Option"]
      [] p.state = "LinkSupportValue" ->
           [p EXCEPT !.link_support = Some(literal), !.state = "Option"]
      [] p.state = "MarkupKindListValue" ->
           [p EXCEPT !.markup_kind_list = Some(literal), !.state = "Option"]
      [] p.state = "TriggersValue" ->
           [p EXCEPT !.triggers = Some(literal), !.state = "Option"]
      [] p.state = "ResolveProviderValue" ->
           [p EXCEPT !.resolve_provider = Some(literal), !.state = "Option"]

\* ValueStep with an identifier read as an option.
ValueStepReadingIdents(p, token) ==
    IF token.kind = "Literal" THEN LiteralArm(p, token)
    ELSE IF token.kind = "Ident" THEN OptionStep(p, token)
    ELSE p

\* One token consumed in one of the ...Value states.
ValueStep(p, token) ==
    IF token.kind = "Literal" THEN LiteralArm(p, token) ELSE p

\* The body of `for token in attr`.
Step(p, token) ==
    IF p.state = "Option" THEN OptionStep(p, token) ELSE ValueStep(p, token)

SetLocals(q) ==
    /\ state' = q.state
    /\ allow_missing_attr' = q.allow_missing_attr
    /\ has_document_selector' = q.has_document_selector
    /\ has_static_registration' = q.has_static_registration
    /\ dynamic_registration' = q.dynamic_registration
    /\ link_support' = q.link_support
    /\ markup_kind_list' = q.markup_kind_list
    /\ triggers' = q.triggers
    /\ resolve_provider' = q.resolve_provider
    /\ panic' = q.panic

----------------------------------------------------------------------------
(* The annotated item *)

\* A syn::Type: a path (its segments' identifiers and the generic arguments of
\* its last segment) or any other type.
PathType(segments, args) == [kind |-> "Path", segments |-> segments, args |-> args]

OtherType(text) == [kind |-> "Other", segments |-> <<>>, args |-> text]

Field(attrs, vis, ident, ty) == [attrs |-> attrs, vis |-> vis, ident |-> ident, ty |-> ty]

\* Declared fields as they occur in src/src: a plain field with an attribute
\* of its own, an elective one, and an elective type written through the
\* re-export of src/src/lib.rs:5.
DeclaredFields ==
    {Field(<<Doc(<<"More trigger characters.">>), SerdeDefault>>, "",
           <<"more", "_", "trigger", "_", "character">>,
           PathType(<<"Vec">>, "String")),
     Field(<<Doc(<<"The failure handling strategy.">>)>>, "pub",
           <<"failure", "_", "handling">>,
           PathType(<<"Elective">>, "FailureHandlingKind")),
     Field(<<>>, "", <<"range", "_", "length">>,
           PathType(<<"lsp_msg", "Elective">>, "u64"))}

\* The field lists of a record: no two fields of a record share a name.
FieldLists ==
    {fs \in UNION {[1..n -> DeclaredFields] : n \in 0..Cardinality(DeclaredFields)} :
        \A i, j \in 1..Len(fs) : fs[i].ident = fs[j].ident => i = j}

ItemOf(kind, fields_kind, fs) ==
    [kind |-> kind, fields_kind |-> fields_kind,
     attrs |-> <<Doc(<<"Defines capabilities.">>)>>, vis |-> "pub",
     ident |-> "Capabilities", generics |-> "", fields |-> fs]

Items ==
    {ItemOf("Struct", "Named", fs) : fs \in FieldLists}
    \cup {ItemOf("Struct", "Unnamed", <<>>), ItemOf("Struct", "Unit", <<>>),
          ItemOf("Enum", "None", <<>>)}

ErrorMessage == <<"Error">>

----------------------------------------------------------------------------
(* The synthesis of the field list *)

\* d.retain(|c| c != '"') on literal.to_string()
DeQuote(literal) == SelectSeq(literal.text, LAMBDA c : c # Quote)

ElectiveAttr ==
    Attribute("serde", <<"default", ",", "skip_serializing_if", "=",
                         Quote, "Elective::is_absent", Quote>>)

DocumentSelectorField ==
    Field(<<Doc(<<"Identifies the scope of the registration.">>), Doc(<<>>),
            Doc(<<"If ", Backtick, "Option::None", Backtick, ", ", Backtick,
                  "DocumentSelector", Backtick, " provided by client will be used.">>)>>,
          "", document_selector_name, PathType(<<"Option">>, "char"))

IdField ==
    Field(<<Doc(<<"The id used to register the request.">>)>>, "", <<"id">>,
          PathType(<<"Elective">>, "String"))

\* DynamicRegistrationField with the quotes of the literal kept.
DynamicRegistrationFieldQuoted(doc_var) ==
    Field(<<Doc(<<"Supports dynamic registration of the ">> \o doc_var.text \o <<".">>)>>,
          "", dynamic_registration_name, PathType(<<"bool">>, ""))

DynamicRegistrationField(doc_var) ==
    Field(<<Doc(<<"Supports dynamic registration of the ">> \o DeQuote(doc_var) \o <<".">>)>>,
          "", dynamic_registration_name, PathType(<<"bool">>, ""))

\* LinkSupportField with the format string of the field before it.
LinkSupportFieldOfRegistration(doc_var) ==
    Field(<<Doc(<<"Supports dynamic registration of the ">> \o DeQuote(doc_var) \o <<".">>)>>,
          "", link_support_name, PathType(<<"bool">>, ""))

LinkSupportField(doc_var) ==
    Field(<<Doc(<<"Supports additional metadata in the form of ">>
                \o DeQuote(doc_var) \o <<" links.">>)>>,
          "", link_support_name, PathType(<<"bool">>, ""))

MarkupKindListField(property) ==
    Field(<<Doc(<<"The supported ", Backtick, "MarkupKind", Backtick, "s for the ", Backtick>>
                \o DeQuote(property)
                \o <<Backtick, " property.", Newline, Newline,
                     "The order describes the preferred format.">>)>>,
          "", DeQuote(property) \o <<"_", "format">>, PathType(<<"Vec">>, "MarkupKind"))

\* TriggerCharactersField with the field named as its option.
TriggerCharactersFieldNamedTriggers(doc_var) ==
    Field(<<Doc(<<"Characters that trigger ">> \o DeQuote(doc_var)
                \o <<" automatically.">>)>>,
          "", triggers_name, PathType(<<"Vec">>, "String"))

TriggerCharactersField(doc_var) ==
    Field(<<Doc(<<"Characters that trigger ">> \o DeQuote(doc_var)
                \o <<" automatically.">>)>>,
          "", <<"trigger", "_", "characters">>, PathType(<<"Vec">>, "String"))

ResolveProviderField(doc_var) ==
    Field(<<Doc(<<"Provides support to resolve additional information for a ">>
                \o DeQuote(doc_var) \o <<" item.">>)>>,
          "", resolve_provider_name, PathType(<<"bool">>, ""))

\* format!("{}_format", p)
property_name(property) == DeQuote(property) \o <<"_", "format">>

\* Ident::new accepts the text: it is a legal variable name, with none of the
\* chunks of the model's texts that no identifier contains.
IsValidIdent(text) ==
    /\ text # <<>>
    /\ \A i \in 1..Len(text) :
         text[i] \notin {"workspace/symbol request", "\\", Quote, Backtick, Newline}

\* The panic, if any, that the synthesis of the fields ends in: that of
\* Ident::new on a text that is no identifier.
SynthesisPanic(p) ==
    IF p.markup_kind_list # None /\ ~IsValidIdent(property_name(p.markup_kind_list[1]))
    THEN property_name(p.markup_kind_list[1]) \o <<" is not a valid Ident">>
    ELSE <<>>

\* `if flag { fields.push(f) }`
PushIf(flag, f) == IF flag THEN <<f>> ELSE <<>>

\* The fields pushed before the loop over the declared fields.
SynthesizedFields(p) ==
    PushIf(p.has_document_selector, DocumentSelectorField)
    \o PushIf(p.has_static_registration, IdField)
    \o (IF p.dynamic_registration # None
        THEN <<DynamicRegistrationField(p.dynamic_registration[1])>> ELSE <<>>)
    \o (IF p.link_support # None
        THEN <<LinkSupportField(p.link_support[1])>> ELSE <<>>)
    \o (IF p.markup_kind_list # None
        THEN <<MarkupKindListField(p.markup_kind_list[1])>> ELSE <<>>)
    \o (IF p.triggers # None
        THEN <<TriggerCharactersField(p.triggers[1])>> ELSE <<>>)
    \o (IF p.resolve_provider # None
        THEN <<ResolveProviderField(p.resolve_provider[1])>> ELSE <<>>)

\* is_elective testing the last segment of the path.
is_elective_by_last_segment(ty) ==
    /\ ty.kind = "Path"
    /\ Len(ty.segments) > 0
    /\ ty.segments[Len(ty.segments)] = "Elective"

\* The test of the loop body: a path type whose first segment is `Elective`.
is_elective(ty) ==
    /\ ty.kind = "Path"
    /\ Len(ty.segments) > 0
    /\ ty.segments[1] = "Elective"

elective_attr(field) == IF is_elective(field.ty) THEN <<ElectiveAttr>> ELSE <<>>

\* The body of `for field in old_fields`.
OutputField(field) ==
    Field(elective_attr(field) \o field.attrs, field.vis, field.ident, field.ty)

\* FinalFields with the declared fields pushed before the synthesized ones.
FinalFieldsDeclaredFirst(p, old_fields) ==
    [i \in 1..Len(old_fields) |-> OutputField(old_fields[i])] \o SynthesizedFields(p)

FinalFields(p, old_fields) ==
    SynthesizedFields(p) \o [i \in 1..Len(old_fields) |-> OutputField(old_fields[i])]

RenameAllCamelCase == Attribute("serde", <<"rename_all", "=", Quote, "camelCase", Quote>>)

\* The quote! that ends lsp_object.
Declaration(p, input) ==
    [derives |-> <<"Debug", "Default", "Deserialize", "Serialize">>,
     attrs |-> <<RenameAllCamelCase>> \o p.allow_missing_attr \o input.attrs,
     vis |-> input.vis,
     ident |-> input.ident,
     generics |-> input.generics,
     fields |-> FinalFields(p, input.fields)]

----------------------------------------------------------------------------
(* Position: a u64 is modelled by its four 16-bit limbs, the lowest first *)

LimbMax == 65535

Zero == <<0, 0, 0, 0>>

\* u64::max_value()
max_value == <<LimbMax, LimbMax, LimbMax, LimbMax>>

\* x + 1 in 64 bits, wrapping.
wrapping_add_one(x) ==
    IF x[1] < LimbMax THEN <<x[1] + 1, x[2], x[3], x[4]>>
    ELSE IF x[2] < LimbMax THEN <<0, x[2] + 1, x[3], x[4]>>
    ELSE IF x[3] < LimbMax THEN <<0, 0, x[3] + 1, x[4]>>
    ELSE IF x[4] < LimbMax THEN <<0, 0, 0, x[4] + 1>>
    ELSE Zero

\* x - 1 in 64 bits, wrapping.
wrapping_sub_one(x) ==
    IF x[1] > 0 THEN <<x[1] - 1, x[2], x[3], x[4]>>
    ELSE IF x[2] > 0 THEN <<LimbMax, x[2] - 1, x[3], x[4]>>
    ELSE IF x[3] > 0 THEN <<LimbMax, LimbMax, x[3] - 1, x[4]>>
    ELSE IF x[4] > 0 THEN <<LimbMax, LimbMax, LimbMax, x[4] - 1>>
    ELSE max_value

\* `x += 1` on a u64: the new value, or the panic of a build that checks
\* overflow.
AddAssignOne(x, checks) ==
    IF x = max_value /\ checks
    THEN [value |-> x, panic |-> <<"attempt to add with overflow">>]
    ELSE [value |-> wrapping_add_one(x), panic |-> <<>>]

\* `x -= 1` on a u64.
SubAssignOne(x, checks) ==
    IF x = Zero /\ checks
    THEN [value |-> x, panic |-> <<"attempt to subtract with overflow">>]
    ELSE [value |-> wrapping_sub_one(x), panic |-> <<>>]

\* The coordinates a Position starts from.
Coordinates ==
    {Zero, wrapping_add_one(Zero), <<LimbMax, 0, 0, 0>>, wrapping_sub_one(max_value), max_value}

----------------------------------------------------------------------------
(* Actions *)

\* A Result<T, E> of a deserialization.
Result(ok, v) == [ok |-> ok, value |-> v]

Failure == Result(FALSE, <<>>)

\* No deserialization has been run.
NoResult == Result(FALSE, <<"none">>)

Init ==
    /\ attr = <<>>
    /\ state = InitLocals.state
    /\ allow_missing_attr = InitLocals.allow_missing_attr
    /\ has_document_selector = InitLocals.has_document_selector
    /\ has_static_registration = InitLocals.has_static_registration
    /\ dynamic_registration = InitLocals.dynamic_registration
    /\ link_support = InitLocals.link_support
    /\ markup_kind_list = InitLocals.markup_kind_list
    /\ triggers = InitLocals.triggers
    /\ resolve_provider = InitLocals.resolve_provider
    /\ pc = "parsing"
    /\ panic = <<>>
    /\ item = <<>>
    /\ fields = <<>>
    /\ output = <<>>
    /\ kind_attrs = <<>>
    /\ rt = "expanding"
    /\ value = <<>>
    /\ wire = <<>>
    /\ decoded = NoResult
    /\ previous = FALSE
    /\ position = [line |-> Zero, character |-> Zero]
    /\ calls = <<>>
    /\ overflow_checks = FALSE
    /\ position_panic = <<>>

\* ConsumeToken with the iterator not advanced: the token is taken again.
ConsumeTokenWithoutAdvancing ==
    /\ pc = "parsing"
    /\ Len(attr) < MaxTokens
    /\ \E token \in Tokens :
         LET q == Step(Locals, token) IN
         /\ attr' = IF attr = <<>> THEN <<token>> ELSE attr
         /\ SetLocals(q)
         /\ pc' = IF q.panic # <<>> THEN "panicked" ELSE "parsing"
    /\ UNCHANGED <<item, fields, output>>
    /\ UNCHANGED kindVars
    /\ UNCHANGED <<runtimeVars, sessionVars, positionVars>>

\* The loop takes the next token of the annotation.
ConsumeToken ==
    /\ pc = "parsing"
    /\ Len(attr) < MaxTokens
    /\ \E token \in Tokens :
         LET q == Step(Locals, token) IN
         /\ attr' = Append(attr, token)
         /\ SetLocals(q)
         /\ pc' = IF q.panic # <<>> THEN "panicked" ELSE "parsing"
    /\ UNCHANGED <<item, fields, output>>
    /\ UNCHANGED kindVars
    /\ UNCHANGED <<runtimeVars, sessionVars, positionVars>>

\* EndOfTokens with the check for a missing value placed after the item is
\* parsed.
EndOfTokensItemFirst ==
    /\ pc = "parsing"
    /\ attr' = <<>>
    /\ \E input \in Items :
         /\ item' = Some(input)
         /\ IF is_searching_for_value(state)
            THEN pc' = "panicked" /\ panic' = MissingValueMessage
            ELSE IF input.kind = "Struct" /\ input.fields_kind = "Named"
            THEN pc' = "inspected" /\ panic' = panic
            ELSE pc' = "panicked" /\ panic' = ErrorMessage
    /\ UNCHANGED <<state, allow_missing_attr, has_document_selector,
                   has_static_registration, dynamic_registration, link_support,
                   markup_kind_list, triggers, resolve_provider, fields, output>>
    /\ UNCHANGED kindVars
    /\ UNCHANGED <<runtimeVars, sessionVars, positionVars>>

\* The annotation is exhausted: the loop ends and the state is checked.
EndOfTokens ==
    /\ pc = "parsing"
    /\ attr' = <<>>
    /\ IF is_searching_for_value(state)
       THEN pc' = "panicked" /\ panic' = MissingValueMessage
       ELSE pc' = "parsed" /\ panic' = panic
    /\ UNCHANGED <<state, allow_missing_attr, has_document_selector,
                   has_static_registration, dynamic_registration, link_support,
                   markup_kind_list, triggers, resolve_provider, item, fields,
                   output>>
    /\ UNCHANGED kindVars
    /\ UNCHANGED <<runtimeVars, sessionVars, positionVars>>

\* parse_macro_input!(item as Item) and the two shape tests that follow it.
ParseItem ==
    /\ pc = "parsed"
    /\ \E input \in Items :
         /\ item' = Some(input)
         /\ IF input.kind = "Struct" /\ input.fields_kind = "Named"
            THEN pc' = "inspected" /\ panic' = panic
            ELSE pc' = "panicked" /\ panic' = ErrorMessage
    /\ UNCHANGED <<attr, state, allow_missing_attr, has_document_selector,
                   has_static_registration, dynamic_registration, link_support,
                   markup_kind_list, triggers, resolve_provider, fields, output>>
    /\ UNCHANGED kindVars
    /\ UNCHANGED <<runtimeVars, sessionVars, positionVars>>

\* The field list is built and the declaration is emitted, unless Ident::new
\* rejects the name made from markup_kind_list.
Synthesize ==
    /\ pc = "inspected"
    /\ IF SynthesisPanic(Locals) # <<>>
       THEN /\ pc' = "panicked"
            /\ panic' = SynthesisPanic(Locals)
            /\ UNCHANGED <<fields, output>>
       ELSE /\ fields' = FinalFields(Locals, item[1].fields)
            /\ output' = Some(Declaration(Locals, item[1]))
            /\ pc' = "done"
            /\ panic' = panic
    /\ UNCHANGED <<attr, state, allow_missing_attr, has_document_selector,
                   has_static_registration, dynamic_registration, link_support,
                   markup_kind_list, triggers, resolve_provider, item>>
    /\ UNCHANGED kindVars
    /\ UNCHANGED <<runtimeVars, sessionVars, positionVars>>

Next == ConsumeToken \/ EndOfTokens \/ ParseItem \/ Synthesize

Spec == Init /\ [][Next]_vars

\* Invoke with the locals of the invocation before it kept, as statics would be.
InvokeKeepingLocals ==
    /\ pc \in {"done", "panicked"}
    /\ previous' = TRUE
    /\ attr' = <<>>
    /\ state' = InitLocals.state
    /\ pc' = "parsing"
    /\ panic' = <<>>
    /\ item' = <<>>
    /\ fields' = <<>>
    /\ output' = <<>>
    /\ UNCHANGED <<allow_missing_attr, has_document_selector, has_static_registration,
                   dynamic_registration, link_support, markup_kind_list, triggers,
                   resolve_provider>>
    /\ UNCHANGED <<kindVars, runtimeVars, positionVars>>

\* The compiler expands the next annotated declaration: lsp_object is entered
\* again and its `let mut` locals are initialized anew.
Invoke ==
    /\ pc \in {"done", "panicked"}
    /\ previous' = TRUE
    /\ attr' = <<>>
    /\ SetLocals(InitLocals)
    /\ pc' = "parsing"
    /\ item' = <<>>
    /\ fields' = <<>>
    /\ output' = <<>>
    /\ UNCHANGED <<kindVars, runtimeVars, positionVars>>

\* lsp_object run to its end: rustc calls it and it runs without waiting for
\* anything, so a step that can be taken is taken.
TerminationSpec == Init /\ [][Next]_vars /\ WF_vars(Next)

\* A program holds a Position.
PositionInit ==
    /\ attr = <<>>
    /\ state = InitLocals.state
    /\ allow_missing_attr = InitLocals.allow_missing_attr
    /\ has_document_selector = InitLocals.has_document_selector
    /\ has_static_registration = InitLocals.has_static_registration
    /\ dynamic_registration = InitLocals.dynamic_registration
    /\ link_support = InitLocals.link_support
    /\ markup_kind_list = InitLocals.markup_kind_list
    /\ triggers = InitLocals.triggers
    /\ resolve_provider = InitLocals.resolve_provider
    /\ panic = <<>>
    /\ pc = "running"
    /\ item = <<>>
    /\ fields = <<>>
    /\ output = <<>>
    /\ kind_attrs = <<>>
    /\ rt = "position"
    /\ value = <<>>
    /\ wire = <<>>
    /\ decoded = NoResult
    /\ previous = FALSE
    /\ position \in [line : Coordinates, character : Coordinates]
    /\ calls = <<>>
    /\ overflow_checks \in BOOLEAN
    /\ position_panic = <<>>

move_up ==
    /\ rt = "position"
    /\ position_panic = <<>>
    /\ Len(calls) < MaxCalls
    /\ calls' = Append(calls, "move_up")
    /\ UNCHANGED <<macroVars, kindVars, runtimeVars, sessionVars, overflow_checks>>
    /\ LET r == SubAssignOne(position.line, overflow_checks) IN
         /\ position' = [position EXCEPT !.line = r.value]
         /\ position_panic' = r.panic

move_to_end_of_line ==
    /\ rt = "position"
    /\ position_panic = <<>>
    /\ Len(calls) < MaxCalls
    /\ calls' = Append(calls, "move_to_end_of_line")
    /\ UNCHANGED <<macroVars, kindVars, runtimeVars, sessionVars, overflow_checks>>
    /\ position' = [position EXCEPT !.character = max_value]
    /\ position_panic' = <<>>

move_left ==
    /\ rt = "position"
    /\ position_panic = <<>>
    /\ Len(calls) < MaxCalls
    /\ calls' = Append(calls, "move_left")
    /\ UNCHANGED <<macroVars, kindVars, runtimeVars, sessionVars, overflow_checks>>
    /\ LET r == SubAssignOne(position.character, overflow_checks) IN
         /\ position' = [position EXCEPT !.character = r.value]
         /\ position_panic' = r.panic

move_right ==
    /\ rt = "position"
    /\ position_panic = <<>>
    /\ Len(calls) < MaxCalls
    /\ calls' = Append(calls, "move_right")
    /\ UNCHANGED <<macroVars, kindVars, runtimeVars, sessionVars, overflow_checks>>
    /\ LET r == AddAssignOne(position.character, overflow_checks) IN
         /\ position' = [position EXCEPT !.character = r.value]
         /\ position_panic' = r.panic

PositionNext == move_up \/ move_to_end_of_line \/ move_left \/ move_right

PositionSpec == PositionInit /\ [][PositionNext]_vars

CompilationNext == Next \/ Invoke

\* lsp_object over the annotated declarations of one compilation.
CompilationSpec == Init /\ [][CompilationNext]_vars

----------------------------------------------------------------------------
(* The generated record at run time: the Serialize and Deserialize that      *)
(* #[derive(Deserialize, Serialize)] and the serde attributes of the emitted *)
(* declaration give it.  A value is a sequence of strings:                   *)
(*   bool <<"true">>, u64 <<"7">>, String <<"s">>, Vec<String> its elements, *)
(*   Option<char> <<"None">> or <<"Some", c>>, a unit variant <<name>>,      *)
(*   Elective<T> <<"Absent">> or <<"Present">> \o the value of T.            *)

Absent == <<"Absent">>

Present(v) == <<"Present">> \o v

is_absent(v) == v = Absent

\* The type is Elective<T>, by whatever path it is written.
IsElective(ty) ==
    ty.kind = "Path" /\ Len(ty.segments) > 0 /\ ty.segments[Len(ty.segments)] = "Elective"

\* The T of Elective<T>.
InnerType(ty) == PathType(<<ty.args>>, "")

\* The values of the types of the model's fields.
PlainValues(ty) ==
    CASE ty = PathType(<<"bool">>, "") -> {<<"false">>, <<"true">>}
      [] ty = PathType(<<"u64">>, "") -> {<<"7">>}
      [] ty = PathType(<<"String">>, "") -> {<<"registration-1">>}
      [] ty = PathType(<<"Vec">>, "String") -> {<<>>, <<".">>}
      [] ty = PathType(<<"Option">>, "char") -> {<<"None">>, <<"Some", "c">>}
      [] ty = PathType(<<"FailureHandlingKind">>, "") ->
           {<<"Abort">>, <<"TextOnlyTransactional">>}

TypeValues(ty) ==
    IF IsElective(ty)
    THEN {Absent} \cup {Present(v) : v \in PlainValues(InnerType(ty))}
    ELSE PlainValues(ty)

\* Default::default() of the types that have one.
DefaultValue(ty) ==
    CASE IsElective(ty) -> Absent
      [] ty = PathType(<<"bool">>, "") -> <<"false">>
      [] ty = PathType(<<"u64">>, "") -> <<"0">>
      [] ty = PathType(<<"String">>, "") -> <<"">>
      [] ty = PathType(<<"Vec">>, "String") -> <<>>
      [] ty = PathType(<<"Option">>, "char") -> <<"None">>

\* A value of the serde data model.
Wire(kind, val) == [kind |-> kind, val |-> val]

\* char::to_ascii_uppercase and char::to_ascii_lowercase on the first letter
\* of a run of letters of the model.
FirstLetters ==
    {<<"document", "Document">>, <<"selector", "Selector">>, <<"id", "Id">>,
     <<"dynamic", "Dynamic">>, <<"registration", "Registration">>,
     <<"link", "Link">>, <<"support", "Support">>, <<"format", "Format">>,
     <<"completion", "Completion">>, <<"hover", "Hover">>,
     <<"trigger", "Trigger">>, <<"characters", "Characters">>,
     <<"resolve", "Resolve">>, <<"provider", "Provider">>, <<"more", "More">>,
     <<"character", "Character">>, <<"failure", "Failure">>,
     <<"handling", "Handling">>, <<"range", "Range">>, <<"length", "Length">>,
     <<"abort", "Abort">>, <<"textOnlyTransactional", "TextOnlyTransactional">>,
     <<"root", "Root">>, <<"uRI", "URI">>, <<"uri", "Uri">>,
     <<"create", "Create">>, <<"rename", "Rename">>, <<"delete", "Delete">>,
     <<"transactional", "Transactional">>, <<"undo", "Undo">>,
     <<"file", "File">>, <<"module", "Module">>, <<"namespace", "Namespace">>,
     <<"none", "None">>, <<"full", "Full">>, <<"incremental", "Incremental">>,
     <<"known", "Known">>, <<"unknown", "Unknown">>,
     <<"boolean", "Boolean">>, <<"options", "Options">>}

FirstToUppercase(word) ==
    IF \E c \in FirstLetters : c[1] = word
    THEN (CHOOSE c \in FirstLetters : c[1] = word)[2] ELSE word

FirstToLowercase(word) ==
    IF \E c \in FirstLetters : c[2] = word
    THEN (CHOOSE c \in FirstLetters : c[2] = word)[1] ELSE word

\* serde's PascalCase of a field name: the underscores go, and the letter after
\* each, and the first, is made upper case.
PascalCase(name) ==
    LET words == SelectSeq(name, LAMBDA c : c # "_")
    IN  [i \in 1..Len(words) |-> FirstToUppercase(words[i])]

\* CamelCase without the last step, which makes the first letter lower case.
CamelCaseFirstKept(name) ==
    LET words == SelectSeq(name, LAMBDA c : c # "_")
    IN  [i \in 1..Len(words) |-> FirstToUppercase(words[i])]

\* serde's camelCase of a field name: its PascalCase with the first letter made
\* lower case.
CamelCase(name) ==
    LET pascal == PascalCase(name)
    IN  IF pascal = <<>> THEN <<>>
        ELSE <<FirstToLowercase(pascal[1])>> \o Tail(pascal)

\* The Serialize of the types of the model's fields other than Elective.
SerializePlain(ty, v) ==
    CASE ty = PathType(<<"bool">>, "") -> Wire("Bool", v)
      [] ty = PathType(<<"u64">>, "") -> Wire("U64", v)
      [] ty = PathType(<<"String">>, "") -> Wire("Str", v)
      [] ty = PathType(<<"Vec">>, "String") -> Wire("Seq", v)
      [] ty = PathType(<<"Option">>, "char") ->
           IF v = <<"None">> THEN Wire("None", <<>>) ELSE Wire("Some", Tail(v))
      [] ty = PathType(<<"FailureHandlingKind">>, "") ->
           Wire("UnitVariant", <<FirstToLowercase(v[1])>>)

\* The Serialize of Elective<T>: Present(v) is written as v is.  Absent is not
\* meant to be written at all; written, it is the unit value.
SerializeElective(ty, v) ==
    IF is_absent(v) THEN Wire("Unit", <<>>) ELSE SerializePlain(InnerType(ty), Tail(v))

SerializeValue(ty, v) ==
    IF IsElective(ty) THEN SerializeElective(ty, v) ELSE SerializePlain(ty, v)

\* The Deserialize of the types of the model's fields other than Elective.
DeserializePlain(ty, w) ==
    CASE ty = PathType(<<"bool">>, "") ->
           IF w.kind = "Bool" THEN Result(TRUE, w.val) ELSE Failure
      [] ty = PathType(<<"u64">>, "") ->
           IF w.kind = "U64" THEN Result(TRUE, w.val) ELSE Failure
      [] ty = PathType(<<"String">>, "") ->
           IF w.kind = "Str" THEN Result(TRUE, w.val) ELSE Failure
      [] ty = PathType(<<"Vec">>, "String") ->
           IF w.kind = "Seq" THEN Result(TRUE, w.val) ELSE Failure
      [] ty = PathType(<<"Option">>, "char") ->
           IF w.kind \in {"None", "Unit"} THEN Result(TRUE, <<"None">>)
           ELSE IF w.kind = "Some" THEN Result(TRUE, <<"Some">> \o w.val)
           ELSE Failure
      [] ty = PathType(<<"FailureHandlingKind">>, "") ->
           IF w.kind = "UnitVariant" /\ w.val \in {<<"abort">>, <<"textOnlyTransactional">>}
           THEN Result(TRUE, <<FirstToUppercase(w.val[1])>>)
           ELSE Failure

\* The Deserialize of Elective<T>: T is deserialized and wrapped in Present.
DeserializeElective(ty, w) ==
    LET inner == DeserializePlain(InnerType(ty), w)
    IN  IF inner.ok THEN Result(TRUE, Present(inner.value)) ELSE Failure

DeserializeValue(ty, w) ==
    IF IsElective(ty) THEN DeserializeElective(ty, w) ELSE DeserializePlain(ty, w)

HasAttribute(attrs, a) == \E i \in 1..Len(attrs) : attrs[i] = a

\* #[serde(skip_serializing_if = "Elective::is_absent")] on the field
SkipsWhenAbsent(field) == HasAttribute(field.attrs, ElectiveAttr)

\* #[serde(default)] on the field, alone or with skip_serializing_if
HasDefault(field) ==
    HasAttribute(field.attrs, ElectiveAttr) \/ HasAttribute(field.attrs, SerdeDefault)

Entry(key, val) == [key |-> key, val |-> val]

\* The derived Serialize of the record: one entry per field that is not
\* skipped, in the order of the fields, under its camelCase name.
SerializeRecord(decl, v) ==
    LET kept == SelectSeq([i \in 1..Len(decl.fields) |-> i],
                          LAMBDA i : ~(SkipsWhenAbsent(decl.fields[i]) /\ is_absent(v[i])))
    IN  [n \in 1..Len(kept) |->
            Entry(CamelCase(decl.fields[kept[n]].ident),
                  SerializeValue(decl.fields[kept[n]].ty, v[kept[n]]))]

HasKey(entries, key) == \E n \in 1..Len(entries) : entries[n].key = key

Lookup(entries, key) == entries[CHOOSE n \in 1..Len(entries) : entries[n].key = key].val

\* MissingField without the default that the record's own attribute gives.
MissingFieldOfFieldOnly(decl, field) ==
    IF HasAttribute(field.attrs, ElectiveAttr) \/ HasAttribute(field.attrs, SerdeDefault)
    THEN Result(TRUE, IF field.ty.segments[Len(field.ty.segments)] = "Elective"
                      THEN <<"Absent">> ELSE <<>>)
    ELSE IF field.ty = PathType(<<"Option">>, "char")
    THEN Result(TRUE, <<"None">>)
    ELSE Result(FALSE, <<>>)

\* What the derived Deserialize gives a field that the input lacks: the
\* field's default, the field of the record's default, or what serde's
\* missing_field gives (None for an Option, an error otherwise).
MissingField(decl, field) ==
    IF HasDefault(field) \/ HasAttribute(decl.attrs, SerdeDefault)
    THEN Result(TRUE, DefaultValue(field.ty))
    ELSE IF field.ty = PathType(<<"Option">>, "char")
    THEN Result(TRUE, <<"None">>)
    ELSE Failure

\* DeserializeField with an entry that fails to parse treated as a missing one.
DeserializeFieldLenient(decl, field, entries) ==
    LET parsed == IF HasKey(entries, CamelCase(field.ident))
                  THEN DeserializeValue(field.ty, Lookup(entries, CamelCase(field.ident)))
                  ELSE Failure
    IN  IF parsed.ok THEN parsed ELSE MissingField(decl, field)

DeserializeField(decl, field, entries) ==
    IF HasKey(entries, CamelCase(field.ident))
    THEN DeserializeValue(field.ty, Lookup(entries, CamelCase(field.ident)))
    ELSE MissingField(decl, field)

\* The derived Deserialize of the record: every field, or an error.
DeserializeRecord(decl, entries) ==
    LET each == [i \in 1..Len(decl.fields) |->
                    DeserializeField(decl, decl.fields[i], entries)]
    IN  IF \A i \in 1..Len(each) : each[i].ok
        THEN Result(TRUE, [i \in 1..Len(each) |-> each[i].value])
        ELSE Failure

\* The values of a record with the given fields.
RECURSIVE RecordValues(_)
RecordValues(fs) ==
    IF fs = <<>> THEN {<<>>}
    ELSE {<<v>> \o rest : v \in TypeValues(Head(fs).ty), rest \in RecordValues(Tail(fs))}

\* lsp_object as a function of its annotation: the locals after the loop.
RECURSIVE ParseFrom(_, _)
ParseFrom(p, tokens) ==
    IF tokens = <<>> \/ p.panic # <<>> THEN p
    ELSE ParseFrom(Step(p, Head(tokens)), Tail(tokens))

\* The annotations of the records that are used at run time.
RuntimeTokens ==
    {Ident(allow_missing_name), Ident(static_registration_name),
     Ident(document_selector_name), Ident(dynamic_registration_name),
     Literal(<<Quote, "completion", Quote>>)}

RuntimeAnnotations ==
    {tokens \in UNION {[1..n -> RuntimeTokens] : n \in 0..MaxTokens} :
        LET p == ParseFrom(InitLocals, tokens)
        IN  p.panic = <<>> /\ ~is_searching_for_value(p.state)}

\* A declared field whose name is not all in lower case.
MixedCaseField == Field(<<>>, "pub", <<"root", "_", "URI">>, PathType(<<"bool">>, ""))

\* The field lists of the records that are used at run time.
RuntimeFieldLists == FieldLists \cup {<<MixedCaseField>>}

\* A record has been generated by lsp_object.
RuntimeInit ==
    \E tokens \in RuntimeAnnotations, fs \in RuntimeFieldLists :
        LET p == ParseFrom(InitLocals, tokens)
            input == ItemOf("Struct", "Named", fs)
        IN  /\ attr = <<>>
            /\ state = p.state
            /\ allow_missing_attr = p.allow_missing_attr
            /\ has_document_selector = p.has_document_selector
            /\ has_static_registration = p.has_static_registration
            /\ dynamic_registration = p.dynamic_registration
            /\ link_support = p.link_support
            /\ markup_kind_list = p.markup_kind_list
            /\ triggers = p.triggers
            /\ resolve_provider = p.resolve_provider
            /\ pc = "done"
            /\ panic = <<>>
            /\ item = Some(input)
            /\ fields = FinalFields(p, fs)
            /\ output = Some(Declaration(p, input))
            /\ kind_attrs = <<>>
            /\ rt = "generated"
            /\ value = <<>>
            /\ wire = <<>>
            /\ decoded = NoResult
            /\ previous = FALSE
            /\ position = [line |-> Zero, character |-> Zero]
            /\ calls = <<>>
            /\ overflow_checks = FALSE
            /\ position_panic = <<>>

\* The program builds a value of the record.
Construct ==
    /\ rt = "generated"
    /\ \E v \in RecordValues(output[1].fields) : value' = v
    /\ rt' = "constructed"
    /\ UNCHANGED <<macroVars, kindVars, sessionVars, positionVars, wire, decoded>>

\* The program serializes the value.
Serialize ==
    /\ rt = "constructed"
    /\ wire' = SerializeRecord(output[1], value)
    /\ rt' = "serialized"
    /\ UNCHANGED <<macroVars, kindVars, sessionVars, positionVars, value, decoded>>

\* The program deserializes what it has serialized.
Deserialize ==
    /\ rt = "serialized"
    /\ decoded' = DeserializeRecord(output[1], wire)
    /\ rt' = "deserialized"
    /\ UNCHANGED <<macroVars, kindVars, sessionVars, positionVars, value, wire>>

\* A value of the serde data model that the type does not deserialize from.
IllTyped(ty) ==
    IF ty = PathType(<<"bool">>, "")
    THEN Wire("Str", <<"true">>) ELSE Wire("Bool", <<"true">>)

\* The values an input gives a field: what a value of the field's type is
\* written as, or a value of another type.
InputWires(ty) ==
    LET plain == IF IsElective(ty) THEN InnerType(ty) ELSE ty
    IN  {SerializePlain(plain, v) : v \in PlainValues(plain)} \cup {IllTyped(plain)}

\* The inputs for a record with the given fields: each field has an entry or
\* has none.
RECURSIVE Inputs(_)
Inputs(fs) ==
    IF fs = <<>> THEN {<<>>}
    ELSE LET rest == Inputs(Tail(fs))
         IN  rest \cup {<<Entry(CamelCase(Head(fs).ident), w)>> \o r :
                            w \in InputWires(Head(fs).ty), r \in rest}

\* The program deserializes an input it has received.
DeserializeInput ==
    /\ rt = "generated"
    /\ \E input \in Inputs(output[1].fields) :
         /\ wire' = input
         /\ decoded' = DeserializeRecord(output[1], input)
    /\ rt' = "received"
    /\ UNCHANGED <<macroVars, kindVars, sessionVars, positionVars, value>>

RuntimeNext == Construct \/ Serialize \/ Deserialize \/ DeserializeInput

RuntimeSpec == RuntimeInit /\ [][RuntimeNext]_vars

----------------------------------------------------------------------------
(* lsp_kind *)

Derive(traits) == Attribute("derive", traits)

\* The kind_attrs that lsp_kind starts with.
KindAttrs == <<Derive(<<"Debug", "Deserialize", "Serialize">>), RenameAllCamelCase>>

\* The kind_attrs that the identifier `number` selects.
NumberKindAttrs ==
    <<Derive(<<"Debug", "Deserialize_repr", "Serialize_repr">>), Attribute("repr", <<"u8">>)>>

KindErrorMessage == <<"Error parsing lsp_kind">>

\* The tokens of the lsp_kind annotations of src/src: none, `number`,
\* `type = "number"` and `type = "string"`; and a group.
KindTokens ==
    {Ident(<<"number">>), Ident(<<"type">>), Punct("="),
     Literal(<<Quote, "number", Quote>>), Literal(<<Quote, "string", Quote>>),
     Group(<<"(", "number", ")">>)}

\* KindStep with every token but the identifier `number` ignored.
KindStepIgnoringOthers(attrs, token) ==
    IF token.kind = "Ident" /\ token.text = <<"number">>
    THEN [kind_attrs |-> NumberKindAttrs, panic |-> <<>>]
    ELSE [kind_attrs |-> attrs, panic |-> <<>>]

\* The body of `for token in attr` of lsp_kind.
KindStep(attrs, token) ==
    IF token.kind = "Ident" /\ token.text = <<"number">>
    THEN [kind_attrs |-> NumberKindAttrs, panic |-> <<>>]
    ELSE [kind_attrs |-> attrs, panic |-> KindErrorMessage]

\* A variant of an enum: unit (data is <<>>) or with one unnamed field of the
\* type data[1]; with an explicit discriminant or with none (<<>>).
Variant(attrs, ident, data, discriminant) ==
    [attrs |-> attrs, ident |-> ident, data |-> data, discriminant |-> discriminant]

Unit(ident) == Variant(<<>>, ident, <<>>, <<>>)

EnumOf(ident, variants) ==
    [kind |-> "Enum", attrs |-> <<Derive(<<"Clone", "Copy">>)>>, vis |-> "pub",
     ident |-> ident, generics |-> "", variants |-> variants]

ResourceOperationKind == EnumOf("ResourceOperationKind", <<Unit("Create"), Unit("Rename"), Unit("Delete")>>)

FailureHandlingKind ==
    EnumOf("FailureHandlingKind",
           <<Unit("Abort"), Unit("Transactional"), Unit("TextOnlyTransactional"), Unit("Undo")>>)

\* The first three of the 26 variants of Symbol.
Symbol ==
    EnumOf("Symbol", <<Variant(<<>>, "File", <<>>, <<1>>), Unit("Module"), Unit("Namespace")>>)

TextDocumentSyncKind ==
    EnumOf("TextDocumentSyncKind",
           <<Variant(<<>>, "None", <<>>, <<0>>), Unit("Full"), Unit("Incremental")>>)

SkipSerializing == Attribute("serde", <<"skip_serializing">>)

SymbolKind ==
    EnumOf("SymbolKind", <<Variant(<<>>, "Known", <<"Symbol">>, <<>>),
                           Variant(<<SkipSerializing>>, "Unknown", <<"u8">>, <<>>)>>)

BooleanOrOptions ==
    EnumOf("BooleanOrOptions", <<Variant(<<>>, "Boolean", <<"bool">>, <<>>),
                                 Variant(<<>>, "Options", <<"T">>, <<>>)>>)

\* The discriminants that are written in a declaration.
WrittenDiscriminants == {<<>>, <<0>>, <<1>>, <<5>>}

\* Discriminant with the written discriminants ignored.
DiscriminantByPosition(variants, i) == i - 1

\* The discriminant rustc gives the i-th variant: the one written, or one more
\* than that of the variant before it, or 0 for the first.
RECURSIVE Discriminant(_, _)
Discriminant(variants, i) ==
    IF variants[i].discriminant # <<>> THEN variants[i].discriminant[1]
    ELSE IF i = 1 THEN 0
    ELSE Discriminant(variants, i - 1) + 1

\* rustc rejects a declaration that gives two variants the same discriminant.
DiscriminantsAreDistinct(variants) ==
    \A i, j \in 1..Len(variants) :
        Discriminant(variants, i) = Discriminant(variants, j) => i = j

\* The enums of unit variants: a prefix of the variants of
\* ResourceOperationKind, each with or without a discriminant.
UnitEnums ==
    LET names == ResourceOperationKind.variants
        all == UNION {{[i \in 1..n |-> Variant(<<>>, names[i].ident, <<>>, d[i])] :
                          d \in [1..n -> WrittenDiscriminants]} : n \in 1..Len(names)}
    IN  {EnumOf("ResourceOperationKind", vs) : vs \in {v \in all : DiscriminantsAreDistinct(v)}}

Enums ==
    UnitEnums \cup {FailureHandlingKind, Symbol, TextDocumentSyncKind, SymbolKind, BooleanOrOptions}

\* The items lsp_kind is applied to.
KindItems ==
    Enums \cup {ItemOf("Struct", "Named", <<>>), ItemOf("Struct", "Unit", <<>>)}

\* The quote! that ends lsp_kind.
KindDeclaration(attrs, input) ==
    [attrs |-> attrs \o input.attrs, vis |-> input.vis, ident |-> input.ident,
     generics |-> input.generics, variants |-> input.variants]

KindInit ==
    /\ attr = <<>>
    /\ state = InitLocals.state
    /\ allow_missing_attr = InitLocals.allow_missing_attr
    /\ has_document_selector = InitLocals.has_document_selector
    /\ has_static_registration = InitLocals.has_static_registration
    /\ dynamic_registration = InitLocals.dynamic_registration
    /\ link_support = InitLocals.link_support
    /\ markup_kind_list = InitLocals.markup_kind_list
    /\ triggers = InitLocals.triggers
    /\ resolve_provider = InitLocals.resolve_provider
    /\ pc = "kind_parsing"
    /\ panic = <<>>
    /\ item = <<>>
    /\ fields = <<>>
    /\ output = <<>>
    /\ kind_attrs = KindAttrs
    /\ rt = "expanding"
    /\ value = <<>>
    /\ wire = <<>>
    /\ decoded = NoResult
    /\ previous = FALSE
    /\ position = [line |-> Zero, character |-> Zero]
    /\ calls = <<>>
    /\ overflow_checks = FALSE
    /\ position_panic = <<>>

\* The loop of lsp_kind takes the next token of the annotation.
KindConsumeToken ==
    /\ pc = "kind_parsing"
    /\ Len(attr) < MaxTokens
    /\ \E token \in KindTokens :
         LET q == KindStep(kind_attrs, token) IN
         /\ attr' = Append(attr, token)
         /\ kind_attrs' = q.kind_attrs
         /\ panic' = q.panic
         /\ pc' = IF q.panic # <<>> THEN "kind_panicked" ELSE "kind_parsing"
    /\ UNCHANGED <<state, allow_missing_attr, has_document_selector,
                   has_static_registration, dynamic_registration, link_support,
                   markup_kind_list, triggers, resolve_provider, item, fields,
                   output>>
    /\ UNCHANGED <<runtimeVars, sessionVars, positionVars>>

\* KindParseItem without the test that the item is an enum.
KindParseItemOfAnyShape ==
    /\ pc = "kind_parsing"
    /\ attr' = <<>>
    /\ \E input \in KindItems :
         /\ item' = Some(input)
         /\ output' = Some([attrs |-> kind_attrs \o input.attrs, vis |-> input.vis,
                             ident |-> input.ident, generics |-> input.generics])
         /\ pc' = "kind_done"
         /\ panic' = panic
    /\ UNCHANGED <<state, allow_missing_attr, has_document_selector,
                   has_static_registration, dynamic_registration, link_support,
                   markup_kind_list, triggers, resolve_provider, fields,
                   kind_attrs>>
    /\ UNCHANGED <<runtimeVars, sessionVars, positionVars>>

\* The annotation of lsp_kind is exhausted: the item is parsed and, if it is
\* an enum, emitted after kind_attrs.
KindParseItem ==
    /\ pc = "kind_parsing"
    /\ attr' = <<>>
    /\ \E input \in KindItems :
         /\ item' = Some(input)
         /\ IF input.kind = "Enum"
            THEN /\ output' = Some(KindDeclaration(kind_attrs, input))
                 /\ pc' = "kind_done"
                 /\ panic' = panic
            ELSE /\ output' = output
                 /\ pc' = "kind_panicked"
                 /\ panic' = ErrorMessage
    /\ UNCHANGED <<state, allow_missing_attr, has_document_selector,
                   has_static_registration, dynamic_registration, link_support,
                   markup_kind_list, triggers, resolve_provider, fields,
                   kind_attrs>>
    /\ UNCHANGED <<runtimeVars, sessionVars, positionVars>>

KindNext == KindConsumeToken \/ KindParseItem

KindSpec == KindInit /\ [][KindNext]_vars

\* Either macro is applied to an item.
MacroInit == Init \/ KindInit

MacroNext == Next \/ KindNext

MacroSpec == MacroInit /\ [][MacroNext]_vars

----------------------------------------------------------------------------
(* The generated enum at run time: the Serialize and Deserialize that the    *)
(* derives of kind_attrs give it.  The value of a unit variant is <<ident>>, *)
(* of a variant with a field <<ident>> \o the value of the field.            *)

\* #[derive(Deserialize_repr, Serialize_repr)] #[repr(u8)]
IsNumberKind(decl) == HasAttribute(decl.attrs, Attribute("repr", <<"u8">>))

\* VariantName without the renaming.
VariantNameAsWritten(decl, ident) == ident

\* serde's camelCase of a variant name: the first letter is made lower case.
VariantName(decl, ident) ==
    IF HasAttribute(decl.attrs, RenameAllCamelCase) THEN FirstToLowercase(ident) ELSE ident

\* Symbol as the type of a field: the enum with the numeric representation.
SymbolDeclaration == KindDeclaration(NumberKindAttrs, Symbol)

\* The u8 that a text of digits is.
U8s == 0..255

IsU8(text) == \E n \in U8s : ToString(n) = text

\* Serialize_repr: the discriminant of the variant as a u8.
SerializeRepr(decl, v) ==
    LET i == CHOOSE i \in 1..Len(decl.variants) : decl.variants[i].ident = v[1]
    IN  Wire("U8", <<ToString(Discriminant(decl.variants, i))>>)

\* Deserialize_repr: the variant whose discriminant the u8 is.
DeserializeRepr(decl, w) ==
    IF /\ w.kind = "U8"
       /\ \E i \in 1..Len(decl.variants) : ToString(Discriminant(decl.variants, i)) = w.val[1]
    THEN Result(TRUE, <<decl.variants[CHOOSE i \in 1..Len(decl.variants) :
                           ToString(Discriminant(decl.variants, i)) = w.val[1]].ident>>)
    ELSE Failure

\* The values of the types of the fields of the variants.
PayloadValues(ty) ==
    CASE ty = "bool" -> {<<"false">>, <<"true">>}
      [] ty = "u8" -> {<<"0">>, <<"2">>, <<"255">>}
      [] ty = "Symbol" -> {<<"File">>, <<"Module">>}
      [] ty = "T" -> {<<"options">>}

\* The Serialize of the types of the fields of the variants.
SerializePayload(ty, v) ==
    CASE ty = "bool" -> Wire("Bool", v)
      [] ty = "u8" -> Wire("U8", v)
      [] ty = "Symbol" -> SerializeRepr(SymbolDeclaration, v)
      [] ty = "T" -> Wire("Struct", v)

\* The Deserialize of the types of the fields of the variants.
DeserializePayload(ty, w) ==
    CASE ty = "bool" -> IF w.kind = "Bool" THEN Result(TRUE, w.val) ELSE Failure
      [] ty = "u8" -> IF w.kind = "U8" /\ IsU8(w.val[1]) THEN Result(TRUE, w.val) ELSE Failure
      [] ty = "Symbol" -> DeserializeRepr(SymbolDeclaration, w)
      [] ty = "T" -> IF w.kind = "Struct" THEN Result(TRUE, w.val) ELSE Failure

\* The values of a generated enum.
KindValues(decl) ==
    UNION {IF decl.variants[i].data = <<>>
           THEN {<<decl.variants[i].ident>>}
           ELSE {<<decl.variants[i].ident>> \o p : p \in PayloadValues(decl.variants[i].data[1])}
           : i \in 1..Len(decl.variants)}

\* The derived Serialize of an enum: a unit variant is written as its name,
\* a variant with a field as its name and the field; a variant marked
\* skip_serializing is an error.
SerializeTagged(decl, v) ==
    LET variant == decl.variants[CHOOSE i \in 1..Len(decl.variants) :
                                    decl.variants[i].ident = v[1]]
    IN  IF HasAttribute(variant.attrs, SkipSerializing) THEN None
        ELSE IF variant.data = <<>>
        THEN Some(Wire("UnitVariant", <<VariantName(decl, variant.ident)>>))
        ELSE LET inner == SerializePayload(variant.data[1], Tail(v))
             IN  Some(Wire("NewtypeVariant",
                           <<VariantName(decl, variant.ident), inner.kind>> \o inner.val))

\* The Serialize of a generated enum: the written value, or None for an error.
SerializeKind(decl, v) ==
    IF IsNumberKind(decl) THEN Some(SerializeRepr(decl, v)) ELSE SerializeTagged(decl, v)

\* The derived Deserialize of an enum: the variant that the input names, with
\* its field if it has one.
DeserializeTagged(decl, w) ==
    IF /\ w.kind \in {"UnitVariant", "NewtypeVariant"}
       /\ \E i \in 1..Len(decl.variants) : VariantName(decl, decl.variants[i].ident) = w.val[1]
    THEN LET variant == decl.variants[CHOOSE i \in 1..Len(decl.variants) :
                            VariantName(decl, decl.variants[i].ident) = w.val[1]]
         IN  IF variant.data = <<>>
             THEN IF w.kind = "UnitVariant" THEN Result(TRUE, <<variant.ident>>) ELSE Failure
             ELSE IF w.kind = "NewtypeVariant"
             THEN LET inner == DeserializePayload(variant.data[1],
                                                  Wire(w.val[2], SubSeq(w.val, 3, Len(w.val))))
                  IN  IF inner.ok THEN Result(TRUE, <<variant.ident>> \o inner.value)
                      ELSE Failure
             ELSE Failure
    ELSE Failure

DeserializeKind(decl, w) ==
    IF IsNumberKind(decl) THEN DeserializeRepr(decl, w) ELSE DeserializeTagged(decl, w)

\* The annotations of the enums that are used at run time.
KindAnnotations == {<<>>, <<Ident(<<"number">>)>>}

RECURSIVE KindParseFrom(_, _)
KindParseFrom(attrs, tokens) ==
    IF tokens = <<>> THEN attrs
    ELSE KindParseFrom(KindStep(attrs, Head(tokens)).kind_attrs, Tail(tokens))

\* Serialize_repr and Deserialize_repr are derived for enums of unit variants
\* only.
Compiles(attrs, input) ==
    HasAttribute(attrs, Attribute("repr", <<"u8">>))
        => \A i \in 1..Len(input.variants) : input.variants[i].data = <<>>

\* The names of the variants of the enums of the model.
VariantNames == UNION {{e.variants[i].ident : i \in 1..Len(e.variants)} : e \in Enums}

\* The inputs an enum is deserialized from.
KindWires ==
    {Wire("U8", <<ToString(n)>>) : n \in {0, 1, 2, 3, 5, 6, 7, 8, 255}}
    \cup {Wire("Bool", <<"true">>), Wire("Bool", <<"false">>), Wire("Struct", <<"options">>),
          Wire("Str", <<"text">>)}
    \cup {Wire("UnitVariant", <<FirstToLowercase(n)>>) : n \in VariantNames}
    \cup {Wire("UnitVariant", <<n>>) : n \in VariantNames}
    \cup {Wire("NewtypeVariant", <<"boolean", "Bool", "true">>),
          Wire("NewtypeVariant", <<"options", "Struct", "options">>),
          Wire("NewtypeVariant", <<"known", "U8", "2">>),
          Wire("NewtypeVariant", <<"known", "U8", "0">>),
          Wire("NewtypeVariant", <<"unknown", "U8", "0">>)}

\* An enum has been generated by lsp_kind.
KindRuntimeInit ==
    \E tokens \in KindAnnotations, input \in Enums :
        LET attrs == KindParseFrom(KindAttrs, tokens)
        IN  /\ Compiles(attrs, input)
            /\ attr = <<>>
            /\ state = InitLocals.state
            /\ allow_missing_attr = InitLocals.allow_missing_attr
            /\ has_document_selector = InitLocals.has_document_selector
            /\ has_static_registration = InitLocals.has_static_registration
            /\ dynamic_registration = InitLocals.dynamic_registration
            /\ link_support = InitLocals.link_support
            /\ markup_kind_list = InitLocals.markup_kind_list
            /\ triggers = InitLocals.triggers
            /\ resolve_provider = InitLocals.resolve_provider
            /\ pc = "kind_done"
            /\ panic = <<>>
            /\ item = Some(input)
            /\ fields = <<>>
            /\ output = Some(KindDeclaration(attrs, input))
            /\ kind_attrs = attrs
            /\ rt = "generated"
            /\ value = <<>>
            /\ wire = <<>>
            /\ decoded = NoResult
            /\ previous = FALSE
            /\ position = [line |-> Zero, character |-> Zero]
            /\ calls = <<>>
            /\ overflow_checks = FALSE
            /\ position_panic = <<>>

\* The program serializes a value of the enum.
KindSerialize ==
    /\ rt = "generated"
    /\ \E v \in KindValues(output[1]) :
         /\ value' = v
         /\ wire' = SerializeKind(output[1], v)
    /\ rt' = "serialized"
    /\ UNCHANGED <<macroVars, kindVars, sessionVars, positionVars, decoded>>

\* The program deserializes what it has serialized.
KindDeserialize ==
    /\ rt = "serialized"
    /\ wire # None
    /\ decoded' = DeserializeKind(output[1], wire[1])
    /\ rt' = "deserialized"
    /\ UNCHANGED <<macroVars, kindVars, sessionVars, positionVars, value, wire>>

\* The program deserializes an input it has received.
KindDeserializeInput ==
    /\ rt = "generated"
    /\ \E w \in KindWires :
         /\ wire' = Some(w)
         /\ decoded' = DeserializeKind(output[1], w)
    /\ rt' = "received"
    /\ UNCHANGED <<macroVars, kindVars, sessionVars, positionVars, value>>

KindRuntimeNext == KindSerialize \/ KindDeserialize \/ KindDeserializeInput

KindRuntimeSpec == KindRuntimeInit /\ [][KindRuntimeNext]_vars

----------------------------------------------------------------------------
(* Properties of the parser of lsp_object *)

\* The option names of lsp_object.
OptionNames ==
    {<<"allow", "_", "missing">>, <<"document", "_", "selector">>,
     <<"static", "_", "registration">>, <<"dynamic", "_", "registration">>,
     <<"link", "_", "support">>, <<"markup", "_", "kind", "_", "list">>,
     <<"triggers">>, <<"resolve", "_", "provider">>}

\* This step consumes a token in the given parser state.
Consumes(s) == pc = "parsing" /\ state = s /\ Len(attr') = Len(attr) + 1

\* This step ends the loop over the tokens.
Exhausts == pc = "parsing" /\ Len(attr') # Len(attr) + 1

Flags == <<allow_missing_attr # <<>>, has_document_selector, has_static_registration>>

\* The value of each option, by the state that awaits it.
Values ==
    [DynamicRegistrationValue |-> dynamic_registration,
     LinkSupportValue |-> link_support,
     MarkupKindListValue |-> markup_kind_list,
     TriggersValue |-> triggers,
     ResolveProviderValue |-> resolve_provider]

AwaitingStateOf(name) ==
    CASE name = <<"dynamic", "_", "registration">> -> "DynamicRegistrationValue"
      [] name = <<"link", "_", "support">> -> "LinkSupportValue"
      [] name = <<"markup", "_", "kind", "_", "list">> -> "MarkupKindListValue"
      [] name = <<"triggers">> -> "TriggersValue"
      [] name = <<"resolve", "_", "provider">> -> "ResolveProviderValue"

IsUnsupportedOptionError(msg) ==
    Len(msg) > 0 /\ msg[1] = "Unsupported attribute option: "

IsMissingValueError(msg) == msg = <<"Missing a value for an option.">>

IsSpecificationError(msg) == IsUnsupportedOptionError(msg) \/ IsMissingValueError(msg)

C2_EndsOnlyInOption ==
    /\ [][Exhausts =>
            /\ state # "Option" =>
                 (pc' = "panicked" /\ IsMissingValueError(panic') /\ output' = <<>>)
            /\ state = "Option" => (pc' = "parsed" /\ panic' = <<>>)]_vars
    /\ [](pc \in {"parsed", "inspected", "done"} => state = "Option")
    /\ [](output # <<>> => state = "Option")

\* The tokens ended right after a value-option name that followed a flag.
C2_Witness ==
    /\ pc = "panicked"
    /\ state = "MarkupKindListValue"
    /\ allow_missing_attr # <<>>
    /\ IsMissingValueError(panic)
    /\ attr = <<>>

\* C3: whenever the macro has aborted with a specification error, the item
\* has not been parsed and no field and no declaration has been produced.
C3_SpecificationErrorsFirst ==
    IsSpecificationError(panic) => (item = <<>> /\ fields = <<>> /\ output = <<>>)

\* A specification error has been raised, with the item still unparsed.
C3_Witness ==
    /\ pc = "panicked"
    /\ IsUnsupportedOptionError(panic)
    /\ item = <<>>
    /\ dynamic_registration # None

\* The text occurs in the message.
Names(msg, text) ==
    \E i \in 0..(Len(msg) - Len(text)) : SubSeq(msg, i + 1, i + Len(text)) = text

\* The name of the option a ...Value state awaits the value of.
OptionAwaited(s) == CHOOSE name \in OptionNames \ FlagNames : AwaitingStateOf(name) = s

\* C4 as stated: the unsupported-option error names the offending identifier
\* and the missing-value error names the option that is missing its value.
C4_ErrorsNameTheirCause ==
    /\ IsUnsupportedOptionError(panic) => Names(panic, attr[Len(attr)].text)
    /\ IsMissingValueError(panic) => Names(panic, OptionAwaited(state))

\* C4 as amended: the unsupported-option error names the offending
\* identifier; the missing-value error is one fixed text, the same for every
\* option, and names no option.
C4_ErrorMessages ==
    /\ (pc = "panicked" /\ item = <<>> /\ state = "Option") =>
          /\ panic = <<"Unsupported attribute option: ">> \o attr[Len(attr)].text
          /\ Names(panic, attr[Len(attr)].text)
    /\ (pc = "panicked" /\ item = <<>> /\ state # "Option") =>
          /\ panic = <<"Missing a value for an option.">>
          /\ \A name \in OptionNames : ~Names(panic, name)

\* The macro has aborted for a missing value of triggers.
C4_Witness ==
    /\ pc = "panicked"
    /\ state = "TriggersValue"
    /\ IsMissingValueError(panic)
    /\ has_static_registration

\* C5: a flag name consumed in the Option state sets that flag, changes no
\* other flag and no value, and leaves the parser in Option; no step clears a
\* flag.
C5_FlagSetsOnlyItself ==
    /\ [][(/\ Consumes("Option")
           /\ attr'[Len(attr')].kind = "Ident"
           /\ attr'[Len(attr')].text \in
                {<<"allow", "_", "missing">>, <<"document", "_", "selector">>,
                 <<"static", "_", "registration">>})
          => LET name == attr'[Len(attr')].text IN
             /\ Flags' = [Flags EXCEPT ![CASE name = <<"allow", "_", "missing">> -> 1
                                          [] name = <<"document", "_", "selector">> -> 2
                                          [] name = <<"static", "_", "registration">> -> 3]
                                       = TRUE]
             /\ Values' = Values
             /\ state' = "Option"
             /\ pc' = "parsing"]_vars
    /\ [][\A i \in 1..3 : Flags[i] => Flags'[i]]_vars

\* document_selector has been consumed after allow_missing and is the one flag
\* it set.
C5_Witness ==
    /\ pc = "parsing"
    /\ attr = <<Ident(<<"allow", "_", "missing">>), Punct(","),
                Ident(<<"document", "_", "selector">>)>>
    /\ Flags = <<TRUE, TRUE, FALSE>>

\* C6: a value-option name consumed in the Option state moves the parser to
\* the ...Value state of that option and changes nothing else; there, tokens
\* that are no literal leave the state alone, and the literal consumed next is
\* recorded as the value of that option alone and returns the parser to
\* Option.
C6_ValueGoesToItsOption ==
    /\ [][(/\ Consumes("Option")
           /\ attr'[Len(attr')].kind = "Ident"
           /\ attr'[Len(attr')].text \in OptionNames \ FlagNames)
          => (/\ state' = AwaitingStateOf(attr'[Len(attr')].text)
              /\ Flags' = Flags
              /\ Values' = Values
              /\ pc' = "parsing")]_vars
    /\ [][(\E s \in AwaitingStates : Consumes(s))
          => IF attr'[Len(attr')].kind = "Literal"
             THEN /\ state' = "Option"
                  /\ Values' = [Values EXCEPT ![state] = Some(attr'[Len(attr')])]
                  /\ Flags' = Flags
                  /\ pc' = "parsing"
             ELSE state' = state]_vars

\* link_support = "hover" has been consumed and only link_support has a value.
C6_Witness ==
    /\ pc = "parsing"
    /\ attr = <<Ident(<<"link", "_", "support">>), Punct("="),
                Literal(<<Quote, "hover", Quote>>)>>
    /\ state = "Option"
    /\ link_support = Some(Literal(<<Quote, "hover", Quote>>))
    /\ dynamic_registration = None

\* Whether the token at each position was consumed in the Option state: it
\* was unless an earlier value-option name has had no literal after it yet.
\* (The earliest such name was itself consumed in the Option state: a literal,
\* wherever it is consumed, leaves the parser in Option.)
ConsumedInOption[j \in 1..MaxTokens + 1] ==
    \A k \in 1..(j - 1) :
        ~(/\ attr[k].kind = "Ident"
          /\ attr[k].text \in OptionNames \ FlagNames
          /\ \A m \in (k + 1)..(j - 1) : attr[m].kind # "Literal")

\* The positions of the literals that are the value of an occurrence of the
\* option.
ValuePositions(name) ==
    {i \in 1..Len(attr) :
        /\ attr[i].kind = "Literal"
        /\ \E j \in 1..(i - 1) :
             /\ ConsumedInOption[j]
             /\ attr[j] = Ident(name)
             /\ \A m \in (j + 1)..(i - 1) : attr[m].kind # "Literal"}

Max(S) == CHOOSE x \in S : \A y \in S : y <= x

\* C7: after any tokens, every value-option holds the literal of its last
\* occurrence (none if it has not occurred with a value), every flag that has
\* occurred is set, and the only panic of the loop is that of an identifier
\* that is no option name: a repeated option raises none.
C7_LastWriteWins ==
    /\ pc = "parsing" =>
         /\ \A name \in OptionNames \ FlagNames :
              Values[AwaitingStateOf(name)] =
                 IF ValuePositions(name) = {} THEN None
                 ELSE Some(attr[Max(ValuePositions(name))])
         /\ Flags =
              [i \in 1..3 |->
                 \E j \in 1..Len(attr) :
                    /\ ConsumedInOption[j]
                    /\ attr[j] = Ident(<<<<"allow", "_", "missing">>,
                                         <<"document", "_", "selector">>,
                                         <<"static", "_", "registration">>>>[i])]
    /\ (pc = "panicked" /\ attr # <<>>) =>
         /\ attr[Len(attr)].kind = "Ident"
         /\ attr[Len(attr)].text \notin OptionNames

\* triggers has occurred twice, with two values, and holds the second; the
\* parser is in Option, where the tokens may end.
C7_Witness ==
    /\ pc = "parsing"
    /\ state = "Option"
    /\ attr = <<Ident(<<"triggers">>), Literal(<<Quote, "completion", Quote>>),
                Ident(<<"triggers">>), Literal(<<Quote, "hover", Quote>>)>>
    /\ triggers = Some(Literal(<<Quote, "hover", Quote>>))

----------------------------------------------------------------------------
(* Properties of the field list *)

\* The names of the fields the options inject, in the order of the data model.
InjectedNames ==
    (IF has_document_selector THEN <<<<"document", "_", "selector">>>> ELSE <<>>)
    \o (IF has_static_registration THEN <<<<"id">>>> ELSE <<>>)
    \o (IF dynamic_registration # None
        THEN <<<<"dynamic", "_", "registration">>>> ELSE <<>>)
    \o (IF link_support # None THEN <<<<"link", "_", "support">>>> ELSE <<>>)
    \o (IF markup_kind_list # None
        THEN <<SelectSeq(markup_kind_list[1].text, LAMBDA c : c # Quote)
               \o <<"_", "format">>>>
        ELSE <<>>)
    \o (IF triggers # None THEN <<<<"trigger", "_", "characters">>>> ELSE <<>>)
    \o (IF resolve_provider # None THEN <<<<"resolve", "_", "provider">>>> ELSE <<>>)

\* The flag has occurred in the tokens consumed, where an option is read.
Written(name) ==
    \E j \in 1..Len(attr) : ConsumedInOption[j] /\ attr[j] = Ident(name)

\* The names of the fields injected for the options written in the tokens
\* consumed, in the order of the data model.
WrittenNames ==
    LET HasValue(name) == ValuePositions(name) # {}
        property == attr[Max(ValuePositions(<<"markup", "_", "kind", "_", "list">>))]
    IN  (IF Written(<<"document", "_", "selector">>)
         THEN <<<<"document", "_", "selector">>>> ELSE <<>>)
        \o (IF Written(<<"static", "_", "registration">>) THEN <<<<"id">>>> ELSE <<>>)
        \o (IF HasValue(<<"dynamic", "_", "registration">>)
            THEN <<<<"dynamic", "_", "registration">>>> ELSE <<>>)
        \o (IF HasValue(<<"link", "_", "support">>)
            THEN <<<<"link", "_", "support">>>> ELSE <<>>)
        \o (IF HasValue(<<"markup", "_", "kind", "_", "list">>)
            THEN <<SelectSeq(property.text, LAMBDA c : c # Quote) \o <<"_", "format">>>>
            ELSE <<>>)
        \o (IF HasValue(<<"triggers">>) THEN <<<<"trigger", "_", "characters">>>> ELSE <<>>)
        \o (IF HasValue(<<"resolve", "_", "provider">>)
            THEN <<<<"resolve", "_", "provider">>>> ELSE <<>>)

\* The last n elements of a sequence.
Suffix(seq, n) == SubSeq(seq, Len(seq) - n + 1, Len(seq))

\* C8: the final field list is the injected fields in the fixed order, each
\* present only if its option was given, followed by the declared fields in
\* their order, each with its name, type, visibility and own attributes.
\* First conjunct: wherever the tokens may end, in whatever order the options
\* were written, the fields injected are those of the options written, in the
\* fixed order.  Second conjunct: the list that is emitted.
C8_FieldOrder ==
    /\ (pc = "parsing" /\ state = "Option") =>
          LET injected == SynthesizedFields(Locals)
          IN  [i \in 1..Len(injected) |-> injected[i].ident] = WrittenNames
    /\ pc = "done" =>
          LET declared == item[1].fields
              k == Len(InjectedNames)
          IN  /\ Len(fields) = k + Len(declared)
              /\ \A i \in 1..k : fields[i].ident = InjectedNames[i]
              /\ \A i \in 1..Len(declared) :
                   /\ fields[k + i].ident = declared[i].ident
                   /\ fields[k + i].ty = declared[i].ty
                   /\ fields[k + i].vis = declared[i].vis
                   /\ Len(fields[k + i].attrs) >= Len(declared[i].attrs)
                   /\ Suffix(fields[k + i].attrs, Len(declared[i].attrs))
                        = declared[i].attrs
              /\ output[1].fields = fields

\* document_selector and resolve_provider were given, the record declares
\* three fields, and the list of five fields has been emitted.
C8_Witness ==
    /\ pc = "done"
    /\ has_document_selector
    /\ resolve_provider # None
    /\ Len(item[1].fields) = 3
    /\ Len(fields) = 5

\* The type is written Elective<T>.
IsElectiveType(ty) == ty.kind = "Path" /\ ty.segments = <<"Elective">>

HasElectiveDirective(field) ==
    \E i \in 1..Len(field.attrs) :
        field.attrs[i] =
            [name |-> "serde",
             text |-> <<"default", ",", "skip_serializing_if", "=",
                        Quote, "Elective::is_absent", Quote>>]

\* C9: every field of the final list whose type is Elective<T> has the
\* directive, the injected id field included.
C9_ElectiveFieldsHaveDirective ==
    pc = "done" =>
        \A i \in 1..Len(fields) :
            IsElectiveType(fields[i].ty) => HasElectiveDirective(fields[i])

----------------------------------------------------------------------------
(* Properties of the generated record at run time *)

\* C10: the value a generated record deserializes to from its own
\* serialization is the value that was serialized: an Absent field is Absent,
\* a Present(v) field is Present(v), and every other field is unchanged.
\* Stated of the records whose elective fields are all written Elective<T>.
C10_RoundTrip ==
    (/\ rt = "deserialized"
     /\ \A i \in 1..Len(fields) : IsElective(fields[i].ty) => IsElectiveType(fields[i].ty))
    => (decoded.ok /\ decoded.value = value)

\* Every elective field of the record is written Elective<T>.
ElectivesWrittenPlainly ==
    \A i \in 1..Len(fields) : IsElective(fields[i].ty) => IsElectiveType(fields[i].ty)

\* C11: the serialization of a record has no entry for an elective field that
\* is Absent, has for an elective field that is Present(v) the entry a plain v
\* has, and has as many entries as the record has non-elective fields and
\* Present elective fields.  Stated of the records whose elective fields are
\* all written Elective<T>.
C11_AbsentIsOmitted ==
    (rt = "serialized" /\ ElectivesWrittenPlainly) =>
        /\ \A i \in 1..Len(fields) :
              LET key == CamelCase(fields[i].ident)
                  ty == fields[i].ty
              IN  IsElective(ty) =>
                    IF value[i] = <<"Absent">>
                    THEN ~HasKey(wire, key)
                    ELSE /\ HasKey(wire, key)
                         /\ Lookup(wire, key) = SerializePlain(InnerType(ty), Tail(value[i]))
        /\ Len(wire) =
              Cardinality({i \in 1..Len(fields) : ~IsElective(fields[i].ty)})
              + Cardinality({i \in 1..Len(fields) :
                                IsElective(fields[i].ty) /\ value[i] # <<"Absent">>})

\* Every entry of the input is a value of its field's type.
InputIsWellTyped ==
    \A i \in 1..Len(fields) :
        HasKey(wire, CamelCase(fields[i].ident)) =>
            DeserializeValue(fields[i].ty, Lookup(wire, CamelCase(fields[i].ident))).ok

\* The default of a field: a boolean false, a sequence empty, an optional
\* None, an elective Absent.
AllDefaults(ty) ==
    IF ty.segments[Len(ty.segments)] = "Elective" THEN <<"Absent">>
    ELSE IF ty.segments = <<"bool">> THEN <<"false">>
    ELSE IF ty.segments = <<"Vec">> THEN <<>>
    ELSE <<"None">>

\* C12: a record declared with allow_missing deserializes from every input
\* whose entries are values of their fields' types, the empty input included;
\* each field the input has is the value of its entry and each field the input
\* lacks is its default.
C12_AllowMissingDefaults ==
    (rt = "received" /\ allow_missing_attr # <<>> /\ InputIsWellTyped) =>
        /\ decoded.ok
        /\ Len(decoded.value) = Len(fields)
        /\ \A i \in 1..Len(fields) :
              LET key == CamelCase(fields[i].ident)
              IN  decoded.value[i] =
                    IF HasKey(wire, key)
                    THEN DeserializeValue(fields[i].ty, Lookup(wire, key)).value
                    ELSE AllDefaults(fields[i].ty)

\* An empty input is deserialized into a record with allow_missing that has a
\* boolean, a sequence and two elective fields.
C12_Witness ==
    /\ rt = "received"
    /\ allow_missing_attr # <<>>
    /\ wire = <<>>
    /\ decoded.ok
    /\ has_static_registration /\ dynamic_registration # <<>>
    /\ Len(fields) = 4
    /\ decoded.value = <<<<"Absent">>, <<"false">>, <<>>, <<"Absent">>>>

\* The input has no entry for the i-th field.
Lacks(i) == ~HasKey(wire, CamelCase(fields[i].ident))

\* C13: a record declared without allow_missing does not deserialize from an
\* input that lacks a non-elective field, and deserializes from an input that
\* lacks only elective fields, which are then Absent.  Stated of the records
\* whose elective fields are all written Elective<T> and whose other fields
\* are neither optional nor given a default by an attribute of their own.
C13_MissingFields ==
    (/\ rt = "received"
     /\ allow_missing_attr = <<>>
     /\ InputIsWellTyped
     /\ ElectivesWrittenPlainly
     /\ \A i \in 1..Len(fields) :
           /\ fields[i].ty.segments # <<"Option">>
           /\ \A n \in 1..Len(fields[i].attrs) :
                 fields[i].attrs[n] # [name |-> "serde", text |-> <<"default">>])
    => /\ (\E i \in 1..Len(fields) : ~IsElective(fields[i].ty) /\ Lacks(i))
            => ~decoded.ok
       /\ (\A i \in 1..Len(fields) : Lacks(i) => IsElective(fields[i].ty))
            => /\ decoded.ok
               /\ \A i \in 1..Len(fields) : Lacks(i) => decoded.value[i] = <<"Absent">>

\* The kinds of value that a type, or the T of an Elective<T>, is read from.
KindsOf(ty) ==
    LET name == IF ty.segments[Len(ty.segments)] = "Elective"
                THEN ty.args ELSE ty.segments[1]
    IN  IF name = "bool" THEN {"Bool"}
        ELSE IF name = "u64" THEN {"U64"}
        ELSE IF name = "String" THEN {"Str"}
        ELSE IF name = "Vec" THEN {"Seq"}
        ELSE IF name = "Option" THEN {"None", "Some", "Unit"}
        ELSE {"UnitVariant"}

\* The input has an entry for the i-th field that is not a value of its type.
FailsToParse(i) ==
    /\ ~Lacks(i)
    /\ Lookup(wire, CamelCase(fields[i].ident)).kind \notin KindsOf(fields[i].ty)

\* C14: when an entry of the input is not a value of its field's type, the
\* deserialization of the record fails and yields no record, with and without
\* allow_missing and whether or not the field is elective; a deserialization
\* that succeeds yields a value for every field.
C14_NoPartialRecord ==
    rt = "received" =>
        /\ (\E i \in 1..Len(fields) : FailsToParse(i))
              => (~decoded.ok /\ decoded.value = <<>>)
        /\ decoded.ok => Len(decoded.value) = Len(fields)

\* A record with allow_missing is given an entry of the wrong type for an
\* elective field that carries the directive, and well-typed entries for the rest.
C14_Witness ==
    /\ rt = "received"
    /\ allow_missing_attr # <<>>
    /\ Len(fields) = 3
    /\ Len(wire) = 3
    /\ \E i \in 1..Len(fields) :
          /\ is_elective(fields[i].ty)
          /\ HasElectiveDirective(fields[i])
          /\ FailsToParse(i)
          /\ \A j \in 1..Len(fields) : j # i => ~FailsToParse(j)
    /\ ~decoded.ok

\* The text of a word in lower case.
Lowercased(word) == IF word = "URI" THEN "uri" ELSE word

\* The transform as the claim words it: the name is split at its separators,
\* the first segment is made lower case, every later segment is made lower
\* case with a capital first letter.
LowerCamelCase(name) ==
    LET words == SelectSeq(name, LAMBDA c : c # "_")
    IN  [i \in 1..Len(words) |->
            IF i = 1 THEN Lowercased(words[i])
            ELSE FirstToUppercase(Lowercased(words[i]))]

WireNames ==
    {<<document_selector_name, <<"document", "Selector">>>>,
     <<<<"id">>, <<"id">>>>,
     <<dynamic_registration_name, <<"dynamic", "Registration">>>>,
     <<<<"more", "_", "trigger", "_", "character">>, <<"more", "Trigger", "Character">>>>,
     <<<<"failure", "_", "handling">>, <<"failure", "Handling">>>>,
     <<<<"range", "_", "length">>, <<"range", "Length">>>>,
     <<<<"root", "_", "URI">>, <<"root", "URI">>>>}

WireNameOf(ident) == (CHOOSE c \in WireNames : c[1] = ident)[2]

----------------------------------------------------------------------------
(* Properties of the generated enum at run time *)

\* The enum was declared without `number` and all its variants are unit.
IsStringKind ==
    /\ \A n \in 1..Len(output[1].attrs) : output[1].attrs[n].name # "repr"
    /\ \A i \in 1..Len(output[1].variants) : output[1].variants[i].data = <<>>

\* The tokens of the unit variants of the model, letter by letter.
VariantTokens ==
    {<<"Create", "create">>, <<"Rename", "rename">>, <<"Delete", "delete">>,
     <<"Abort", "abort">>, <<"Transactional", "transactional">>,
     <<"TextOnlyTransactional", "textOnlyTransactional">>, <<"Undo", "undo">>,
     <<"File", "file">>, <<"Module", "module">>, <<"Namespace", "namespace">>,
     <<"None", "none">>, <<"Full", "full">>, <<"Incremental", "incremental">>}

TokenOf(ident) == (CHOOSE c \in VariantTokens : c[1] = ident)[2]

IsNumberTagged == \E n \in 1..Len(output[1].attrs) : output[1].attrs[n].name = "repr"

\* The position of the variant that a value of a unit enum is.
PositionOf(v) ==
    CHOOSE i \in 1..Len(output[1].variants) : output[1].variants[i].ident = v[1]

\* The first discriminant written in the declaration, 0 if none is.
Base ==
    LET vs == output[1].variants
        written == {i \in 1..Len(vs) : vs[i].discriminant # <<>>}
    IN  IF written = {} THEN 0
        ELSE vs[CHOOSE i \in written : \A j \in written : i <= j].discriminant[1]

IntegerOf(i) ==
    LET vs == output[1].variants
        written == {k \in 1..i : vs[k].discriminant # <<>>}
    IN  IF written = {} THEN i - 1
        ELSE LET k == CHOOSE k \in written : \A j \in written : j <= k
             IN  vs[k].discriminant[1] + (i - k)

IsOneOfKind ==
    /\ ~IsNumberTagged
    /\ \A i \in 1..Len(output[1].variants) : output[1].variants[i].data # <<>>

\* The variants whose field the input is a value of.
Matching ==
    {i \in 1..Len(output[1].variants) :
        DeserializePayload(output[1].variants[i].data[1], wire[1]).ok}

\* C18: an enum whose variants carry data is read by trying the variants in
\* the order of the declaration: the result is the first variant whose field
\* the input is a value of, and an error only if there is none (a boolean is
\* Boolean, a structured value is Options; an integer of Symbol is Known, any
\* other u8 is Unknown).
C18_FirstMatchingVariant ==
    (rt = "received" /\ IsOneOfKind) =>
        IF Matching = {} THEN ~decoded.ok
        ELSE LET i == CHOOSE i \in Matching : \A j \in Matching : i <= j
                 variant == output[1].variants[i]
             IN  /\ decoded.ok
                 /\ decoded.value =
                      <<variant.ident>> \o DeserializePayload(variant.data[1], wire[1]).value

----------------------------------------------------------------------------
(* Properties of both macros *)

\* lsp_kind, not lsp_object, is being expanded.
InLspKind == pc \in {"kind_parsing", "kind_done", "kind_panicked"}

\* C19: once lsp_object has parsed an item that is not a struct with named
\* fields, or lsp_kind an item that is not an enum, the macro has aborted with
\* an error and has produced no field and no declaration; an item of the
\* supported shape does not raise that error, and a declaration is produced
\* only from such an item.
C19_UnsupportedShapeAborts ==
    /\ (item # <<>> /\ ~InLspKind /\ rt = "expanding") =>
          IF item[1].kind = "Struct" /\ item[1].fields_kind = "Named"
          THEN panic # <<"Error">> /\ (pc = "done" => output # <<>>)
          ELSE pc = "panicked" /\ panic = <<"Error">> /\ fields = <<>> /\ output = <<>>
    /\ (item # <<>> /\ InLspKind) =>
          IF item[1].kind = "Enum"
          THEN pc = "kind_done" /\ output # <<>>
          ELSE pc = "kind_panicked" /\ panic = <<"Error">> /\ output = <<>>

\* lsp_kind has been applied to a struct, with `number`.
C19_Witness ==
    /\ pc = "kind_panicked"
    /\ item # <<>>
    /\ item[1].kind = "Struct"
    /\ kind_attrs # KindAttrs
    /\ output = <<>>

\* lsp_object has been applied to an enum.
C19_WitnessOfLspObject ==
    /\ pc = "panicked"
    /\ item # <<>>
    /\ item[1].kind = "Enum"

----------------------------------------------------------------------------
(* Properties of the injected fields *)

\* The fields of a list that are written as dynamicRegistration.
DynamicRegistrationFields(fs) ==
    {i \in 1..Len(fs) : CamelCase(fs[i].ident) = <<"dynamic", "Registration">>}

\* The field is a boolean documented as the claim words it.
IsWorkspaceSymbolField(f) ==
    /\ f.ty = [kind |-> "Path", segments |-> <<"bool">>, args |-> ""]
    /\ f.attrs = <<[name |-> "doc",
                    text |-> <<"Supports dynamic registration of the ",
                               "workspace/symbol request", ".">>]>>

\* The last value written for dynamic_registration is "workspace/symbol request".
WorkspaceSymbolIsWritten ==
    /\ ValuePositions(dynamic_registration_name) # {}
    /\ attr[Max(ValuePositions(dynamic_registration_name))].text
         = <<Quote, "workspace/symbol request", Quote>>

\* C20: a record declared with dynamic_registration = "workspace/symbol
\* request", once or more than once, has exactly one field written as
\* dynamicRegistration; it is a boolean documented "Supports dynamic
\* registration of the workspace/symbol request.".
C20_DynamicRegistrationField ==
    /\ (pc = "parsing" /\ state = "Option" /\ WorkspaceSymbolIsWritten) =>
          LET injected == SynthesizedFields(Locals)
          IN  /\ Cardinality(DynamicRegistrationFields(injected)) = 1
              /\ \A i \in DynamicRegistrationFields(injected) :
                    IsWorkspaceSymbolField(injected[i])
    /\ (pc = "done"
        /\ dynamic_registration = <<[kind |-> "Literal",
                                     text |-> <<Quote, "workspace/symbol request", Quote>>]>>) =>
          /\ Cardinality(DynamicRegistrationFields(fields)) = 1
          /\ \A i \in DynamicRegistrationFields(fields) : IsWorkspaceSymbolField(fields[i])
          /\ output[1].fields = fields

\* A record with declared fields has been generated from
\* dynamic_registration = "workspace/symbol request".
C20_Witness ==
    /\ pc = "done"
    /\ dynamic_registration = <<[kind |-> "Literal",
                                 text |-> <<Quote, "workspace/symbol request", Quote>>]>>
    /\ Len(fields) = 3
    /\ Cardinality(DynamicRegistrationFields(fields)) = 1

\* The option has been written twice, the second time with "workspace/symbol
\* request".
C20_WitnessWrittenTwice ==
    /\ pc = "parsing"
    /\ state = "Option"
    /\ Cardinality(ValuePositions(dynamic_registration_name)) = 2
    /\ WorkspaceSymbolIsWritten
    /\ attr[2].text = <<Quote, "completion", Quote>>

\* The text of a literal without its two enclosing quotes.
Content(l) == SubSeq(l.text, 2, Len(l.text) - 1)

\* The text of a literal without any of its quote characters.
Unquoted(l) == SelectSeq(l.text, LAMBDA c : c # "\"")

\* The generated record has exactly one field of that name, documented by
\* that one text.
IsDocumented(name, text) ==
    /\ Cardinality({i \in 1..Len(fields) : fields[i].ident = name}) = 1
    /\ \A i \in 1..Len(fields) :
         fields[i].ident = name => fields[i].attrs = <<[name |-> "doc", text |-> text]>>

\* C21 as claimed: the documentation of each injected field is the template
\* of the table with the value of the option substituted.
C21_TableTemplates ==
    pc = "done" =>
      /\ dynamic_registration # <<>> =>
           IsDocumented(<<"dynamic", "_", "registration">>,
                        <<"Supports dynamic registration of the ">>
                        \o Content(dynamic_registration[1]) \o <<".">>)
      /\ link_support # <<>> =>
           IsDocumented(<<"link", "_", "support">>,
                        <<"Supports additional metadata in the form of ">>
                        \o Content(link_support[1]) \o <<" links.">>)
      /\ markup_kind_list # <<>> =>
           IsDocumented(Content(markup_kind_list[1]) \o <<"_", "format">>,
                        <<"Preferred formats for the ">>
                        \o Content(markup_kind_list[1])
                        \o <<" property, most preferred first.">>)
      /\ triggers # <<>> =>
           IsDocumented(<<"trigger", "_", "characters">>,
                        <<"Characters that trigger ">>
                        \o Content(triggers[1]) \o <<" automatically.">>)
      /\ resolve_provider # <<>> =>
           IsDocumented(<<"resolve", "_", "provider">>,
                        <<"Provides support to resolve additional information for an ">>
                        \o Content(resolve_provider[1]) \o <<" item.">>)

\* C21: in a generated record the documentation of each injected field is the
\* format string of the macro with the literal's text, all its quote
\* characters removed, substituted: the table's text for dynamic_registration,
\* link_support and triggers, "The supported `MarkupKind`s for the `P`
\* property.", an empty line and "The order describes the preferred format."
\* for markup_kind_list, and "Provides support to resolve additional
\* information for a X item." for resolve_provider.
C21_FormatStrings ==
    pc = "done" =>
      /\ dynamic_registration # <<>> =>
           IsDocumented(<<"dynamic", "_", "registration">>,
                        <<"Supports dynamic registration of the ">>
                        \o Unquoted(dynamic_registration[1]) \o <<".">>)
      /\ link_support # <<>> =>
           IsDocumented(<<"link", "_", "support">>,
                        <<"Supports additional metadata in the form of ">>
                        \o Unquoted(link_support[1]) \o <<" links.">>)
      /\ markup_kind_list # <<>> =>
           IsDocumented(Unquoted(markup_kind_list[1]) \o <<"_", "format">>,
                        <<"The supported ", "GRAVE", "MarkupKind", "GRAVE", "s for the ", "GRAVE">>
                        \o Unquoted(markup_kind_list[1])
                        \o <<"GRAVE", " property.", "\n", "\n",
                             "The order describes the preferred format.">>)
      /\ triggers # <<>> =>
           IsDocumented(<<"trigger", "_", "characters">>,
                        <<"Characters that trigger ">>
                        \o Unquoted(triggers[1]) \o <<" automatically.">>)
      /\ resolve_provider # <<>> =>
           IsDocumented(<<"resolve", "_", "provider">>,
                        <<"Provides support to resolve additional information for a ">>
                        \o Unquoted(resolve_provider[1]) \o <<" item.">>)

\* A record has been generated from markup_kind_list = "hover" and
\* resolve_provider = "completion".
C21_Witness ==
    /\ pc = "done"
    /\ markup_kind_list = <<[kind |-> "Literal", text |-> <<"\"", "hover", "\"">>]>>
    /\ resolve_provider = <<[kind |-> "Literal", text |-> <<"\"", "completion", "\"">>]>>
    /\ Len(fields) = 2

\* A record has been generated from link_support = "completion" and
\* triggers = "hover".
C21_WitnessOfMatchingTemplates ==
    /\ pc = "done"
    /\ link_support = <<[kind |-> "Literal", text |-> <<"\"", "completion", "\"">>]>>
    /\ triggers = <<[kind |-> "Literal", text |-> <<"\"", "hover", "\"">>]>>
    /\ Len(fields) = 2

\* A type written as a path of one segment with its generic argument.
TypeOf(segment, arg) == [kind |-> "Path", segments |-> <<segment>>, args |-> arg]

\* The name and type of the table for each option that is given, in the order
\* of the table.
TableFields ==
    (IF has_document_selector
     THEN <<<< <<"document", "_", "selector">>, TypeOf("Option", "char") >>>> ELSE <<>>)
    \o (IF has_static_registration
        THEN <<<< <<"id">>, TypeOf("Elective", "String") >>>> ELSE <<>>)
    \o (IF dynamic_registration # <<>>
        THEN <<<< <<"dynamic", "_", "registration">>, TypeOf("bool", "") >>>> ELSE <<>>)
    \o (IF link_support # <<>>
        THEN <<<< <<"link", "_", "support">>, TypeOf("bool", "") >>>> ELSE <<>>)
    \o (IF markup_kind_list # <<>>
        THEN <<<< Content(markup_kind_list[1]) \o <<"_", "format">>,
                  TypeOf("Vec", "MarkupKind") >>>>
        ELSE <<>>)
    \o (IF triggers # <<>>
        THEN <<<< <<"trigger", "_", "characters">>, TypeOf("Vec", "String") >>>> ELSE <<>>)
    \o (IF resolve_provider # <<>>
        THEN <<<< <<"resolve", "_", "provider">>, TypeOf("bool", "") >>>> ELSE <<>>)

\* The fields of the generated record that are not declared ones.
InjectedFields == SubSeq(fields, 1, Len(fields) - Len(item[1].fields))

\* C22: the fields a generated record has besides its declared ones are, by
\* name and type, exactly those of the table for the options given: an option
\* that is given injects its one field and an option that is not given injects
\* none.
C22_InjectedFields ==
    pc = "done" =>
      /\ Len(fields) >= Len(item[1].fields)
      /\ [i \in 1..Len(InjectedFields) |-> <<InjectedFields[i].ident, InjectedFields[i].ty>>]
           = TableFields
      /\ \A i \in 1..Len(item[1].fields) :
           fields[Len(InjectedFields) + i].ident = item[1].fields[i].ident

\* A record with a declared field has been generated from
\* markup_kind_list = "hover" and triggers.
C22_Witness ==
    /\ pc = "done"
    /\ markup_kind_list = <<[kind |-> "Literal", text |-> <<"\"", "hover", "\"">>]>>
    /\ triggers # <<>>
    /\ Len(item[1].fields) = 1
    /\ Len(fields) = 3

\* A record has been generated from document_selector and
\* static_registration only.
C22_WitnessOfFlags ==
    /\ pc = "done"
    /\ has_document_selector
    /\ has_static_registration
    /\ Len(fields) = 2
    /\ Len(item[1].fields) = 0

\* The annotation being read starts with the option value_set.
ValueSetIsWritten ==
    /\ attr # <<>>
    /\ attr[1] = [kind |-> "Ident", text |-> <<"value", "_", "set">>]

\* C23 as claimed: a record whose annotation has the option value_set is
\* generated: reading the option does not abort the macro.
C23_ValueSetIsGenerated == ValueSetIsWritten => (pc = "parsing" /\ panic = <<>>)

----------------------------------------------------------------------------
(* Properties of a compilation *)

\* C24: whatever was expanded before, an invocation starts in the Option
\* state with no flag set, no value and no field; while its tokens are read
\* its locals are those the tokens consumed give from that start; and the
\* fields and the declaration it produces are those of its own locals and its
\* own item.
C24_IndependentInvocations ==
    /\ [][(pc \in {"done", "panicked"} /\ pc' = "parsing") =>
            /\ state' = "Option"
            /\ allow_missing_attr' = <<>>
            /\ ~has_document_selector' /\ ~has_static_registration'
            /\ dynamic_registration' = <<>> /\ link_support' = <<>>
            /\ markup_kind_list' = <<>> /\ triggers' = <<>> /\ resolve_provider' = <<>>
            /\ attr' = <<>> /\ fields' = <<>> /\ output' = <<>> /\ panic' = <<>>]_vars
    /\ [](pc = "parsing" => Locals = ParseFrom(InitLocals, attr))
    /\ []((pc = "panicked" /\ attr # <<>>) => Locals = ParseFrom(InitLocals, attr))
    /\ [](pc = "done" =>
            /\ fields = FinalFields(Locals, item[1].fields)
            /\ output = <<Declaration(Locals, item[1])>>)

\* After an earlier invocation, a declaration has been generated from an
\* annotation without options.
C24_Witness ==
    /\ previous
    /\ pc = "done"
    /\ item[1].fields # <<>>
    /\ fields = [i \in 1..Len(item[1].fields) |-> OutputField(item[1].fields[i])]

\* After an earlier invocation, a later one has read two tokens.
C24_WitnessOfParsing ==
    /\ previous
    /\ pc = "parsing"
    /\ Len(attr) = 2
    /\ has_static_registration

----------------------------------------------------------------------------
(* Properties of the parser of lsp_kind *)

\* The token is the identifier `number`.
IsNumberMarker(token) == token = [kind |-> "Ident", text |-> <<"number">>]

\* The attributes of the string and one-of derivation.
StringDerivation ==
    <<[name |-> "derive", text |-> <<"Debug", "Deserialize", "Serialize">>],
      [name |-> "serde", text |-> <<"rename_all", "=", "\"", "camelCase", "\"">>]>>

\* The attributes of the numeric representation.
NumericRepresentation ==
    <<[name |-> "derive", text |-> <<"Debug", "Deserialize_repr", "Serialize_repr">>],
      [name |-> "repr", text |-> <<"u8">>]>>

C25_WitnessOfNumber ==
    /\ pc = "kind_done"
    /\ kind_attrs = NumericRepresentation
    /\ output # <<>>

----------------------------------------------------------------------------
(* Properties of the tokens lsp_object ignores *)

\* The parser state, the flags and the values are left as they are.
ParserUntouched ==
    /\ state' = state
    /\ allow_missing_attr' = allow_missing_attr
    /\ has_document_selector' = has_document_selector
    /\ has_static_registration' = has_static_registration
    /\ dynamic_registration' = dynamic_registration
    /\ link_support' = link_support
    /\ markup_kind_list' = markup_kind_list
    /\ triggers' = triggers
    /\ resolve_provider' = resolve_provider

\* The tokens consumed, the separators left out.
WithoutSeparators == SelectSeq(attr, LAMBDA t : t.kind # "Punct")

\* C26: a token that is no identifier consumed in the Option state, and a
\* token that is no literal consumed in a ...Value state (an identifier too),
\* changes neither the parser state nor a flag nor a value and raises no
\* error; and the tokens consumed give the same locals with their separators
\* left out.
C26_IgnoredTokens ==
    /\ [][(Consumes("Option") /\ attr'[Len(attr')].kind # "Ident") =>
            (ParserUntouched /\ pc' = "parsing" /\ panic' = <<>>)]_vars
    /\ [][(pc = "parsing" /\ state # "Option" /\ Len(attr') = Len(attr) + 1
           /\ attr'[Len(attr')].kind # "Literal") =>
            (ParserUntouched /\ pc' = "parsing" /\ panic' = <<>>)]_vars
    /\ [](pc = "parsing" => Locals = ParseFrom(InitLocals, WithoutSeparators))

\* An identifier that names a flag was consumed while the value of triggers
\* was awaited.
C26_Witness ==
    /\ pc = "parsing"
    /\ state = "TriggersValue"
    /\ Len(attr) = 2
    /\ attr[2] = [kind |-> "Ident", text |-> <<"allow", "_", "missing">>]
    /\ allow_missing_attr = <<>>

\* An annotation written with its separators has been read.
C26_WitnessOfSeparators ==
    /\ pc = "parsing"
    /\ state = "Option"
    /\ Len(attr) = 4
    /\ attr[2].kind = "Punct" /\ attr[4].kind = "Punct"
    /\ link_support # <<>>

----------------------------------------------------------------------------
(* Properties of the text of a value *)

\* The text substituted in the documentation of the field of that name: the
\* documentation without the text before and the text after the value.
TextUsed(name) ==
    LET f == fields[CHOOSE i \in 1..Len(fields) : fields[i].ident = name]
    IN  SubSeq(f.attrs[1].text, 2, Len(f.attrs[1].text) - 1)

\* C27 as claimed: the text used in the documentation and in the field name
\* is the content of the literal, only its two enclosing quotes removed.
C27_EnclosingQuotesOnly ==
    pc = "done" =>
      /\ dynamic_registration # <<>> =>
           TextUsed(<<"dynamic", "_", "registration">>) = Content(dynamic_registration[1])
      /\ link_support # <<>> =>
           TextUsed(<<"link", "_", "support">>) = Content(link_support[1])
      /\ triggers # <<>> =>
           TextUsed(<<"trigger", "_", "characters">>) = Content(triggers[1])
      /\ resolve_provider # <<>> =>
           TextUsed(<<"resolve", "_", "provider">>) = Content(resolve_provider[1])
      /\ markup_kind_list # <<>> =>
           \E i \in 1..Len(fields) :
               fields[i].ident = Content(markup_kind_list[1]) \o <<"_", "format">>

----------------------------------------------------------------------------
(* Properties of the declared fields *)

\* The type is a path whose first segment is the identifier Elective.
FirstSegmentIsElective(ty) ==
    ty.kind = "Path" /\ ty.segments # <<>> /\ ty.segments[1] = "Elective"

\* #[serde(default, skip_serializing_if = "Elective::is_absent")]
Directive ==
    [name |-> "serde",
     text |-> <<"default", ",", "skip_serializing_if", "=", "\"", "Elective::is_absent", "\"">>]

\* The field generated for the i-th declared field.
GeneratedFor(i) == fields[Len(fields) - Len(item[1].fields) + i]

\* C28: in a generated record each declared field has its name, type and
\* visibility, and its attributes are its own ones as declared, preceded by
\* the elective directive exactly when its type is a path whose first segment
\* is Elective.
C28_DirectiveByFirstSegment ==
    pc = "done" =>
      /\ Len(fields) >= Len(item[1].fields)
      /\ \A i \in 1..Len(item[1].fields) :
           LET declared == item[1].fields[i] IN
           /\ GeneratedFor(i).ident = declared.ident
           /\ GeneratedFor(i).ty = declared.ty
           /\ GeneratedFor(i).vis = declared.vis
           /\ GeneratedFor(i).attrs =
                (IF FirstSegmentIsElective(declared.ty) THEN <<Directive>> ELSE <<>>)
                \o declared.attrs
           /\ (Directive \in {GeneratedFor(i).attrs[n] : n \in 1..Len(GeneratedFor(i).attrs)})
                <=> FirstSegmentIsElective(declared.ty)

\* A record has been generated that declares an elective field, an elective
\* field written through a qualified path, and a field of another type.
C28_Witness ==
    /\ pc = "done"
    /\ Len(item[1].fields) = 3
    /\ \E i, j, k \in 1..3 :
         /\ item[1].fields[i].ty.segments = <<"Elective">>
         /\ item[1].fields[j].ty.segments = <<"lsp_msg", "Elective">>
         /\ item[1].fields[k].ty.segments = <<"Vec">>

----------------------------------------------------------------------------
(* Termination of lsp_object *)

\* lsp_object has returned or has been aborted.
Terminated == pc \in {"done", "panicked"}

\* The steps lsp_object has left at most: the tokens not yet consumed, the end
\* of the loop, the parsing of the item and the synthesis.
StepsLeft ==
    CASE pc = "parsing" -> (MaxTokens - Len(attr)) + 3
      [] pc = "parsed" -> 2
      [] pc = "inspected" -> 1
      [] OTHER -> 0

\* C29: lsp_object ends, aborted with its error and no declaration or with
\* the declaration produced; every step it takes brings the end nearer and a
\* step is possible until the end is reached; a step of the loop consumes one
\* token, after those consumed before, and changes the parser state at most
\* from Option to a ...Value state or from a ...Value state to Option.
C29_Terminates ==
    /\ <>Terminated
    /\ [][StepsLeft' < StepsLeft]_vars
    /\ [](StepsLeft \in 0..(MaxTokens + 3))
    /\ [](~Terminated => ENABLED Next)
    /\ [](Terminated =>
            \/ pc = "panicked" /\ panic # <<>> /\ output = <<>>
            \/ pc = "done" /\ panic = <<>> /\ output # <<>>)
    /\ [][(pc = "parsing" /\ attr' # <<>>) =>
            /\ Len(attr') = Len(attr) + 1
            /\ SubSeq(attr', 1, Len(attr)) = attr
            /\ \/ state' = state
               \/ state = "Option" /\ state' # "Option"
               \/ state # "Option" /\ state' = "Option"]_vars

\* lsp_object has returned a declaration after the four tokens of two options
\* with a value.
C29_Witness ==
    /\ pc = "done"
    /\ dynamic_registration # <<>>
    /\ link_support # <<>>
    /\ output # <<>>

\* lsp_object has been aborted at its fourth token.
C29_WitnessOfAbort ==
    /\ pc = "panicked"
    /\ Len(attr) = 4
    /\ output = <<>>

----------------------------------------------------------------------------
(* Properties of Position *)

\* b is a + 1 as natural numbers: the limbs of a below some limb are all at
\* their maximum and 0 in b, that limb is one more in b, the others are equal.
IsNext(a, b) ==
    \E k \in 1..4 :
        /\ \A j \in 1..(k - 1) : a[j] = 65535 /\ b[j] = 0
        /\ a[k] < 65535 /\ b[k] = a[k] + 1
        /\ \A j \in (k + 1)..4 : b[j] = a[j]

\* This step is a call of the method.
Calls(method) == Len(calls') = Len(calls) + 1 /\ calls'[Len(calls')] = method

\* C30 as claimed: every call changes its coordinate as documented, leaves
\* the other one as it is, and neither panics nor wraps around: move_up and
\* move_left do not turn 0 into the maximum and move_right does not turn the
\* maximum into 0.
C30_MovesStayInRange ==
    /\ [][Calls("move_up") =>
            /\ position'.character = position.character
            /\ position_panic' = <<>>
            /\ (position.line # <<0, 0, 0, 0>> => IsNext(position'.line, position.line))
            /\ (position.line = <<0, 0, 0, 0>>
                  => position'.line # <<65535, 65535, 65535, 65535>>)]_vars
    /\ [][Calls("move_left") =>
            /\ position'.line = position.line
            /\ position_panic' = <<>>
            /\ (position.character # <<0, 0, 0, 0>>
                  => IsNext(position'.character, position.character))
            /\ (position.character = <<0, 0, 0, 0>>
                  => position'.character # <<65535, 65535, 65535, 65535>>)]_vars
    /\ [][Calls("move_right") =>
            /\ position'.line = position.line
            /\ position_panic' = <<>>
            /\ (position.character # <<65535, 65535, 65535, 65535>>
                  => IsNext(position.character, position'.character))
            /\ (position.character = <<65535, 65535, 65535, 65535>>
                  => position'.character # <<0, 0, 0, 0>>)]_vars
    /\ [][Calls("move_to_end_of_line") =>
            /\ position'.line = position.line
            /\ position_panic' = <<>>
            /\ position'.character = <<65535, 65535, 65535, 65535>>]_vars

====
